---- MODULE Spec2Model ----
(***************************************************************************)
(* doxyfront: the load pipeline of doxyfront/source.py (parse, reference   *)
(* resolution, parent assignment, unqualification, name fallback, brief    *)
(* derivation and href generation) and the reference classes of            *)
(* doxyfront/model.py.                                                     *)
(*                                                                         *)
(* Representation.                                                         *)
(*  - A Python str that holds a (qualified) name is the sequence of its    *)
(*    '::'-separated segments: "a::b" is <<"a","b">>, "" is <<"">>, and    *)
(*    "a::" is <<"a","">>.  Segments hold no ':'.  None is << >>.          *)
(*  - An id is a TLA+ string; None is NoneId.                              *)
(*  - Every Def object lives in heap; an object reference is its index in  *)
(*    heap and None is 0.                                                  *)
(*  - A Markup is the sequence of the fragments below its root, in the     *)
(*    order resolve_refs visits them.                                      *)
(***************************************************************************)
EXTENDS Integers, Sequences, FiniteSets, TLC

VARIABLES
    pc,         \* position of load(): "parse", "resolved", "assigned", "unqualified",
                \* "named", "done" (returned) or "crashed" (an exception left load)
    heap,       \* every Def object created so far
    defs,       \* load's local list defs: indices into heap
    files,      \* the units of load's argument files read so far, in order
    file_name,  \* the global file_name of source.py: number of the unit parsed last
    warnings,   \* what _warning printed: <<[file, msg, id]>>
    mpc,        \* position of the resolution pass over model.py objects
    mheap,      \* model.py Def objects
    mwarnings,  \* what model._warning printed
    dpc,        \* position of doctree(): "ready", "rendered" (returned) or "raised"
    ddefs,      \* doctree's argument defs: model.py Def objects, parents by index
    scope_sibling_cache,    \* the global dict of doctree.py: parent id -> categories
    path_sibling_cache,     \* the global dict of doctree.py: parent id -> categories
    render_jobs,            \* doctree's local list render_jobs: <<[page, script]>>
    apc,        \* "call" before and "returned" after cpp_order_attributes
    attributes, \* the attributes list of the Def whose signature is rendered
    attr_before,    \* first component of cpp_order_attributes' result
    attr_after,     \* second component of cpp_order_attributes' result
    rpc,        \* "call" before RefFragment.render_html, afterwards which class
                \* family rendered: "source" or "model"
    rdefs,      \* the definitions a rendered reference can point to
    fragment,   \* the RefFragment being rendered
    context,    \* model.py's context argument: the definitions being rendered
    html,       \* the string render_html returned, as a sequence of pieces
    lpc,        \* "call" before and "returned" after slug()
    ldefs,      \* a chain of model.py definitions, each the parent of the next
    slugs       \* the slug of the innermost definition

vars == <<pc, heap, defs, files, file_name, warnings, mpc, mheap, mwarnings,
          dpc, ddefs, scope_sibling_cache, path_sibling_cache, render_jobs,
          apc, attributes, attr_before, attr_after,
          rpc, rdefs, fragment, context, html, lpc, ldefs, slugs>>
svars == <<pc, heap, defs, files, file_name, warnings>>
mvars == <<mpc, mheap, mwarnings>>
dvars == <<dpc, ddefs, scope_sibling_cache, path_sibling_cache, render_jobs>>
avars == <<apc, attributes, attr_before, attr_after>>
rvars == <<rpc, rdefs, fragment, context, html>>
lvars == <<lpc, ldefs, slugs>>

(***************************************************************************)
(* Bounds                                                                  *)
(***************************************************************************)
MaxFiles == 2

(***************************************************************************)
(* Values                                                                  *)
(***************************************************************************)
NoneId == "<None>"
NoName == << >>
EmptyStr == << "" >>
NoObj == 0
NoHref == << >>

SymbolicRef(id, name) ==
    [tag |-> "Symbolic", id |-> id, name |-> name, definition |-> NoObj]

UnresolvedRef(name) ==
    [tag |-> "Unresolved", id |-> NoneId, name |-> name, definition |-> NoObj]

ResolvedRef(d) ==
    [tag |-> "Resolved", id |-> NoneId, name |-> NoName, definition |-> d]

\* deserialize_ref's None: no Ref object at all
NoRef == [tag |-> "None", id |-> NoneId, name |-> NoName, definition |-> NoObj]

TextFragment == [cls |-> "TextFragment", variant |-> "", ref |-> NoRef]
FormatFragment(v) == [cls |-> "FormatFragment", variant |-> v, ref |-> NoRef]
RefFragment(r) == [cls |-> "RefFragment", variant |-> "", ref |-> r]

NoMarkup == [present |-> FALSE, children |-> << >>]
Markup(ch) == [present |-> TRUE, children |-> ch]

\* the attributes of the Def classes that hold a Markup
Slots == {"brief_description", "detailed_description", "in_body_text", "type",
          "return_type", "initializer", "definition", "substitution",
          "underlying_type"}

CompoundClasses == {"DirectoryDef", "FileDef", "NamespaceDef", "GroupDef", "PageDef",
                    "ClassDef"}

\* classes deriving from SingleDef: `class CompoundDef(Def, SingleDef)` makes every
\* compound one too
SingleDefClasses == {"MacroDef", "TypedefDef", "FunctionDef", "VariableDef",
                     "PropertyDef", "EnumValueDef", "EnumDef", "FriendDef"}
                    \cup CompoundClasses

NewDef(cls) ==
    [cls |-> cls, id |-> NoneId, name |-> NoName, qualified_name |-> NoName,
     markup |-> [s \in Slots |-> NoMarkup], members |-> << >>, values |-> << >>,
     variant |-> "None", href |-> NoHref, file_parent |-> NoObj,
     scope_parent |-> NoObj]

Warning(file, msg, id) == [file |-> file, msg |-> msg, id |-> id]

(***************************************************************************)
(* Sequence helpers                                                        *)
(***************************************************************************)
Range(s) == {s[i] : i \in DOMAIN s}

(***************************************************************************)
(* Python str operations on names                                          *)
(***************************************************************************)
\* a variant that leaves the scope separator out
PlusScope_Bare(s) == s

\* s + '::'
PlusScope(s) == Append(s, "")

\* s.startswith(p), for the prefixes load builds ('' and q + '::'), which end in
\* an empty segment; no segment of the inputs is a proper prefix of another
StartsWith(s, p) ==
    /\ Len(p) <= Len(s)
    /\ SubSeq(s, 1, Len(p) - 1) = SubSeq(p, 1, Len(p) - 1)
    /\ (p[Len(p)] = "" \/ s[Len(p)] = p[Len(p)])

\* s[len(p):] when s.startswith(p) and p ends in an empty segment
StripPrefix(s, p) == SubSeq(s, Len(p), Len(s))

\* s.startswith('~')
TildeSegments == {"~a"}
StartsWithTilde(s) == s[1] \in TildeSegments

(***************************************************************************)
(* The XML input.  A ref element is [refid, text]; a markup element is     *)
(* [present, children] with children a sequence of [tag, refid, text];     *)
(* a memberdef or enumvalue is [kind, id, name, elems, values]; a unit is  *)
(* one XML file.                                                           *)
(***************************************************************************)
XmlRef(refid, text) == [tag |-> "ref", refid |-> refid, text |-> text]
XmlPara == [tag |-> "para", refid |-> NoneId, text |-> NoName]
XmlAbsent == [present |-> FALSE, children |-> << >>]
XmlElem(ch) == [present |-> TRUE, children |-> ch]

ElemTags == {"briefdescription", "detaileddescription", "inbodydescription", "type",
             "initializer", "definition"}

NoElems == [t \in ElemTags |-> XmlAbsent]

XmlMember(kind, id, name, elems, values) ==
    [kind |-> kind, id |-> id, name |-> name, elems |-> elems, values |-> values]

XmlUnit(kind, id, name, inner, members) ==
    [wellformed |-> TRUE, compounddef |-> TRUE, kind |-> kind, id |-> id,
     name |-> name, elems |-> NoElems, inner |-> inner, members |-> members]

(***************************************************************************)
(* Deserialization (source.py)                                             *)
(***************************************************************************)
deserialize_ref(x) ==
    IF x.refid = NoneId
    THEN IF x.text = NoName THEN NoRef ELSE UnresolvedRef(x.text)
    ELSE SymbolicRef(x.refid, x.text)

deserialize_fragment(x) ==
    CASE x.tag = "ref" -> RefFragment(deserialize_ref(x))
      [] x.tag = "para" -> FormatFragment("PARAGRAPH")
      [] OTHER -> TextFragment

Markup_deserialize(e) ==
    Markup([i \in DOMAIN e.children |-> deserialize_fragment(e.children[i])])

\* the attribute in which cls.deserialize stores the Markup of child element tag
\* ("" when the class ignores the tag)
SlotOfTag(cls, tag) ==
    CASE tag = "briefdescription" -> "brief_description"
      [] tag = "detaileddescription" -> "detailed_description"
      [] tag = "inbodydescription" -> "in_body_text"
      [] cls = "MacroDef" /\ tag = "initializer" -> "substitution"
      [] cls = "TypedefDef" /\ tag = "type" -> "type"
      [] cls = "TypedefDef" /\ tag = "definition" -> "definition"
      [] cls = "FunctionDef" /\ tag = "type" -> "return_type"
      [] cls = "VariableDef" /\ tag = "type" -> "return_type"
      [] cls = "VariableDef" /\ tag = "initializer" -> "initializer"
      [] cls = "PropertyDef" /\ tag = "type" -> "return_type"
      [] cls = "EnumValueDef" /\ tag = "initializer" -> "initializer"
      [] cls = "EnumDef" /\ tag = "type" -> "underlying_type"
      [] cls = "FriendDef" /\ tag = "definition" -> "definition"
      [] OTHER -> ""

\* _elem_empty: Def.deserialize skips an element without attributes, children and text
ElemEmpty(e) == e.children = << >>

\* a variant that assigns the recorded name as name while parsing
Def_deserialize_Named(cls, x) ==
    [NewDef(cls) EXCEPT
        !.id = x.id,
        !.qualified_name = x.name,
        !.name = x.name,
        !.markup = [s \in Slots |->
            IF \E t \in ElemTags : SlotOfTag(cls, t) = s /\ x.elems[t].present
                  /\ ~(s \in {"brief_description", "detailed_description", "in_body_text"}
                       /\ ElemEmpty(x.elems[t]))
            THEN Markup_deserialize(
                    x.elems[CHOOSE t \in ElemTags : SlotOfTag(cls, t) = s])
            ELSE NoMarkup]]

\* Def.deserialize and the subclass loops over the child elements
Def_deserialize(cls, x) ==
    [NewDef(cls) EXCEPT
        !.id = x.id,
        !.qualified_name = x.name,
        !.markup = [s \in Slots |->
            IF \E t \in ElemTags : SlotOfTag(cls, t) = s /\ x.elems[t].present
                  /\ ~(s \in {"brief_description", "detailed_description", "in_body_text"}
                       /\ ElemEmpty(x.elems[t]))
            THEN Markup_deserialize(
                    x.elems[CHOOSE t \in ElemTags : SlotOfTag(cls, t) = s])
            ELSE NoMarkup]]

MemberClass(kind) ==
    CASE kind = "define" -> "MacroDef"
      [] kind = "typedef" -> "TypedefDef"
      [] kind \in {"function", "signal", "slot"} -> "FunctionDef"
      [] kind = "variable" -> "VariableDef"
      [] kind = "property" -> "PropertyDef"
      [] kind = "enum" -> "EnumDef"
      [] kind = "friend" -> "FriendDef"
      [] OTHER -> ""

\* FunctionDef.deserialize: the variant, a <type/> without content marking a
\* constructor or destructor (the Markup is then not stored)
FunctionDef_deserialize(m) ==
    LET inst == Def_deserialize("FunctionDef", m)
        v == CASE m.kind = "function" -> "FUNCTION"
               [] m.kind = "signal" -> "SIGNAL"
               [] m.kind = "slot" -> "SLOT"
               [] OTHER -> "None"
        bare == m.elems["type"].present /\ m.elems["type"].children = << >>
    IN  IF v = "FUNCTION" /\ bare
        THEN [obj |-> [inst EXCEPT
                        !.variant = IF m.name # NoName /\ StartsWithTilde(m.name)
                                    THEN "DESTRUCTOR" ELSE "CONSTRUCTOR",
                        !.markup["return_type"] = NoMarkup],
              ok |-> m.name # NoName]
        ELSE [obj |-> [inst EXCEPT !.variant = v], ok |-> TRUE]

\* EnumDef.deserialize: the values are EnumValueDef objects owned by the enum;
\* they are not appended to the unit's definition list.  base is the heap index
\* before the enum.
EnumDef_deserialize(m, base) ==
    LET inst == Def_deserialize("EnumDef", m)
        vals == [i \in DOMAIN m.values |-> Def_deserialize("EnumValueDef", m.values[i])]
    IN  <<[inst EXCEPT !.values = [i \in DOMAIN m.values |-> base + 1 + i]]>> \o vals

\* one memberdef of CompoundDef.deserialize: the objects it creates, child first
Member_deserialize(m, base) ==
    LET cls == MemberClass(m.kind)
    IN  CASE cls = "EnumDef" -> [objs |-> EnumDef_deserialize(m, base), ok |-> TRUE]
          [] cls = "FunctionDef" ->
                [objs |-> <<FunctionDef_deserialize(m).obj>>,
                 ok |-> FunctionDef_deserialize(m).ok]
          [] OTHER -> [objs |-> <<Def_deserialize(cls, m)>>, ok |-> TRUE]

\* the memberdef loop of CompoundDef.deserialize (lines 774-796); ok is FALSE when
\* member.attrib['kind'] raises KeyError or a child's deserialize raises
RECURSIVE Members_deserialize(_, _, _)
Members_deserialize(ms, base, file) ==
    IF ms = << >>
    THEN [objs |-> << >>, defs |-> << >>, refs |-> << >>, warn |-> << >>, ok |-> TRUE]
    ELSE LET m == Head(ms)
         IN  IF m.kind = NoneId
             THEN [objs |-> << >>, defs |-> << >>, refs |-> << >>, warn |-> << >>,
                   ok |-> FALSE]
             ELSE IF MemberClass(m.kind) = ""
             THEN LET rest == Members_deserialize(Tail(ms), base, file)
                  IN  [rest EXCEPT
                        !.warn = <<Warning(file, "Unknown member kind", NoneId)>> \o @]
             ELSE LET one == Member_deserialize(m, base)
                      rest == Members_deserialize(Tail(ms), base + Len(one.objs), file)
                      child == one.objs[1]
                  IN  [objs |-> one.objs \o rest.objs,
                       defs |-> <<base + 1>> \o rest.defs,
                       refs |-> <<SymbolicRef(child.id, child.qualified_name)>>
                                    \o rest.refs,
                       warn |-> (IF child.id = NoneId
                                 THEN <<Warning(file, "Missing attribute id", NoneId)>>
                                 ELSE << >>) \o rest.warn,
                       ok |-> one.ok /\ rest.ok]

CompoundClass(kind) ==
    CASE kind = "file" -> "FileDef"
      [] kind = "dir" -> "DirectoryDef"
      [] kind \in {"class", "struct", "union", "protocol", "interface", "category"}
            -> "ClassDef"
      [] kind = "namespace" -> "NamespaceDef"
      [] kind = "group" -> "GroupDef"
      [] kind = "page" -> "PageDef"
      [] OTHER -> ""

\* CompoundDef.deserialize (with ClassDef's variant): the compound, then its
\* memberdef children; members holds the inner* references, then one
\* SymbolicRef per child
CompoundDef_deserialize(u, base, file) ==
    LET cls == CompoundClass(u.kind)
        kids == Members_deserialize(u.members, base + 1, file)
        inst == [Def_deserialize(cls, u) EXCEPT
                    !.members = [i \in DOMAIN u.inner |-> deserialize_ref(u.inner[i])]
                                    \o kids.refs,
                    !.variant = IF cls = "ClassDef" THEN u.kind ELSE "None"]
    IN  [objs |-> <<inst>> \o kids.objs,
         defs |-> <<base + 1>> \o kids.defs,
         warn |-> (IF u.id = NoneId
                   THEN <<Warning(file, "Missing attribute id", NoneId)>>
                   ELSE << >>) \o kids.warn,
         ok |-> kids.ok]

\* _parse: the definitions of one unit; a unit that does not parse, holds no
\* compounddef or is of an unknown kind yields [] and a warning
_parse(u, base, file) ==
    IF ~u.wellformed
    THEN [objs |-> << >>, defs |-> << >>,
          warn |-> <<Warning(file, "ParseError", NoneId)>>, ok |-> TRUE]
    ELSE IF ~u.compounddef
    THEN [objs |-> << >>, defs |-> << >>,
          warn |-> <<Warning(file, "No compounddef in file", NoneId)>>, ok |-> TRUE]
    ELSE IF u.kind = NoneId
    THEN \* 'Unknown compounddef kind ' + None raises TypeError
         [objs |-> << >>, defs |-> << >>,
          warn |-> <<Warning(file, "Missing attribute kind", NoneId)>>, ok |-> FALSE]
    ELSE IF CompoundClass(u.kind) = ""
    THEN [objs |-> << >>, defs |-> << >>,
          warn |-> <<Warning(file, "Unknown compounddef kind", NoneId)>>, ok |-> TRUE]
    ELSE CompoundDef_deserialize(u, base, file)


(***************************************************************************)
(* Reference resolution (source.py)                                        *)
(***************************************************************************)
\* defs = dict((d.id, d) for d in def_list): a later definition replaces an
\* earlier one with the same id
IdDefined(h, ds, id) == \E i \in DOMAIN ds : h[ds[i]].id = id

IdLookup(h, ds, id) ==
    ds[CHOOSE i \in DOMAIN ds :
            /\ h[ds[i]].id = id
            /\ \A j \in DOMAIN ds : h[ds[j]].id = id => j <= i]

\* SymbolicRef.resolve, source.py lines 400-405
SymbolicRef_resolve(r, h, ds) ==
    IF IdDefined(h, ds, r.id)
    THEN ResolvedRef(IdLookup(h, ds, r.id))
    ELSE UnresolvedRef(r.name)

\* Ref.resolve: UnresolvedRef and ResolvedRef return self
Ref_resolve(r, h, ds) ==
    IF r.tag = "Symbolic" THEN SymbolicRef_resolve(r, h, ds) ELSE r

\* the _warning call of SymbolicRef.resolve
RefWarns(r, h, ds) == r.tag = "Symbolic" /\ ~IdDefined(h, ds, r.id)

RefSeqWarnings(refs, h, ds, file) ==
    LET bad == SelectSeq(refs, LAMBDA r : RefWarns(r, h, ds))
    IN  [i \in DOMAIN bad |-> Warning(file, "Unresolved reference", bad[i].id)]

\* Fragment.resolve_refs / RefFragment.resolve_refs over the fragments of a Markup
MarkupRefs(mk) ==
    LET fr == SelectSeq(mk.children, LAMBDA f : f.cls = "RefFragment")
    IN  [i \in DOMAIN fr |-> fr[i].ref]

Markup_resolve_refs(mk, h, ds) ==
    [mk EXCEPT !.children = [i \in DOMAIN mk.children |->
        IF mk.children[i].cls = "RefFragment"
        THEN RefFragment(Ref_resolve(mk.children[i].ref, h, ds))
        ELSE mk.children[i]]]

\* the Markup attributes cls.resolve_refs passes to _maybe_resolve_refs, in order
ResolvedSlots(cls) ==
    LET base == <<"brief_description", "detailed_description", "in_body_text">>
    IN  CASE cls = "MacroDef" -> base \o <<"substitution">>
          [] cls = "TypedefDef" -> base \o <<"type", "definition">>
          [] cls = "FunctionDef" -> base \o <<"return_type">>
          [] cls = "VariableDef" -> base \o <<"type", "initializer">>
          [] cls = "PropertyDef" -> base \o <<"type">>
          [] cls = "EnumValueDef" -> base \o <<"initializer">>
          [] cls = "EnumDef" -> base \o <<"underlying_type">>
          [] cls = "FriendDef" -> base \o <<"definition">>
          [] OTHER -> base

\* every Ref the object's resolve_refs resolves itself, in order (an EnumDef's
\* values follow separately)
RECURSIVE SlotRefs(_, _)
SlotRefs(o, slots) ==
    IF slots = << >> THEN << >>
    ELSE MarkupRefs(o.markup[Head(slots)]) \o SlotRefs(o, Tail(slots))

OwnRefs(o) ==
    SlotRefs(o, ResolvedSlots(o.cls))
        \o (IF o.cls \in CompoundClasses THEN o.members ELSE << >>)

\* cls.resolve_refs on one object; None.resolve raises AttributeError where
\* deserialize_ref returned None
Def_resolve_refs(o, h, ds) ==
    [o EXCEPT
        !.markup = [s \in Slots |->
            IF s \in Range(ResolvedSlots(o.cls))
            THEN Markup_resolve_refs(o.markup[s], h, ds) ELSE o.markup[s]],
        !.members = IF o.cls \in CompoundClasses
                    THEN [i \in DOMAIN o.members |-> Ref_resolve(o.members[i], h, ds)]
                    ELSE o.members]

Def_resolve_ok(o) == \A i \in DOMAIN OwnRefs(o) : OwnRefs(o)[i].tag # "None"

\* the objects whose resolve_refs runs: the definitions of the list and, through
\* EnumDef.resolve_refs, the values of its enums
ResolveReach(h, ds) ==
    Range(ds) \cup {v \in DOMAIN h :
                        \E i \in DOMAIN ds : h[ds[i]].cls = "EnumDef"
                                             /\ v \in Range(h[ds[i]].values)}

RECURSIVE ResolveWarnings(_, _, _, _)
ResolveWarnings(h, ds, todo, file) ==
    IF todo = << >> THEN << >>
    ELSE LET o == h[Head(todo)]
         IN  RefSeqWarnings(OwnRefs(o), h, ds, file)
                \o (IF o.cls = "EnumDef"
                    THEN ResolveWarnings(h, ds, o.values, file) ELSE << >>)
                \o ResolveWarnings(h, ds, Tail(todo), file)

\* _resolve_refs
_resolve_refs(h, ds, file) ==
    [h |-> [k \in DOMAIN h |->
                IF k \in ResolveReach(h, ds) THEN Def_resolve_refs(h[k], h, ds)
                ELSE h[k]],
     warn |-> ResolveWarnings(h, ds, ds, file),
     ok |-> \A k \in ResolveReach(h, ds) : Def_resolve_ok(h[k])]

(***************************************************************************)
(* Parent assignment (source.py)                                           *)
(***************************************************************************)
\* one iteration of the member loops of _assign_parents
AssignFileParent(h, r, m) ==
    IF m.tag = "Resolved" /\ h[m.definition].cls \in SingleDefClasses
    THEN [h EXCEPT ![m.definition].file_parent = r] ELSE h

\* a first-assignment-wins variant of the scope loop body, for comparison
AssignScopeParent_FirstWins(h, r, m) ==
    IF m.tag = "Resolved" /\ h[m.definition].scope_parent = NoObj
    THEN [h EXCEPT ![m.definition].scope_parent = r] ELSE h

AssignScopeParent(h, r, m) ==
    IF m.tag = "Resolved" THEN [h EXCEPT ![m.definition].scope_parent = r] ELSE h

RECURSIVE AssignMembers(_, _, _, _)
AssignMembers(h, r, ms, rel) ==
    IF ms = << >> THEN h
    ELSE AssignMembers(IF rel = "file" THEN AssignFileParent(h, r, Head(ms))
                       ELSE AssignScopeParent(h, r, Head(ms)),
                       r, Tail(ms), rel)

_assign_parents(h, r) ==
    IF h[r].cls \in {"FileDef", "DirectoryDef"}
    THEN AssignMembers(h, r, h[r].members, "file")
    ELSE IF h[r].cls \in {"NamespaceDef", "ClassDef"}
    THEN AssignMembers(h, r, h[r].members, "scope")
    ELSE h

\* for d in defs: _assign_parents(d)
RECURSIVE AssignAll(_, _)
AssignAll(h, ds) ==
    IF ds = << >> THEN h ELSE AssignAll(_assign_parents(h, Head(ds)), Tail(ds))

(***************************************************************************)
(* Unqualification (source.py)                                             *)
(***************************************************************************)
\* _unqualify_names(d, prefix) on heap h: [h, ok]; ok is FALSE when
\* None.startswith or None + '::' raises
RECURSIVE _unqualify_names(_, _, _)
RECURSIVE UnqualifyMembers(_, _, _)

\* a variant that cuts the prefix off the name the Definition has so far
UnqualifiedName_OfName(o, prefix) ==
    IF o.name = NoName THEN StripPrefix(o.qualified_name, prefix)
    ELSE IF Len(o.name) >= Len(prefix) THEN SubSeq(o.name, Len(prefix), Len(o.name))
    ELSE EmptyStr

\* d.qualified_name[len(prefix):]
UnqualifiedName(o, prefix) == StripPrefix(o.qualified_name, prefix)

UnqualifyMembers(st, ms, prefix) ==
    IF ms = << >> \/ ~st.ok THEN st
    ELSE UnqualifyMembers(
            IF Head(ms).tag = "Resolved"
            THEN _unqualify_names(st.h, Head(ms).definition, prefix) ELSE st,
            Tail(ms), prefix)

_unqualify_names(h, d, prefix) ==
    LET qn == h[d].qualified_name
    IN  IF prefix # EmptyStr /\ qn = NoName THEN [h |-> h, ok |-> FALSE]
        ELSE LET match == prefix # EmptyStr /\ StartsWith(qn, prefix)
                 h1 == IF match THEN [h EXCEPT ![d].name = UnqualifiedName(h[d], prefix)]
                       ELSE h
             IN  IF (prefix = EmptyStr \/ match) /\ h[d].cls \in CompoundClasses
                 THEN IF qn = NoName THEN [h |-> h1, ok |-> FALSE]
                      ELSE UnqualifyMembers([h |-> h1, ok |-> TRUE], h[d].members,
                                            PlusScope(qn))
                 ELSE [h |-> h1, ok |-> TRUE]

\* a variant that starts only at the Definitions no compound lists
RECURSIVE UnqualifyAll_RootsOnly(_, _)
UnqualifyAll_RootsOnly(st, ds) ==
    IF ds = << >> \/ ~st.ok THEN st
    ELSE LET listed == \E k \in DOMAIN st.h :
                          /\ st.h[k].cls \in CompoundClasses
                          /\ \E j \in DOMAIN st.h[k].members :
                                /\ st.h[k].members[j].tag = "Resolved"
                                /\ st.h[k].members[j].definition = Head(ds)
         IN  UnqualifyAll_RootsOnly(
                IF listed THEN st ELSE _unqualify_names(st.h, Head(ds), EmptyStr),
                Tail(ds))

\* for d in defs: _unqualify_names(d)
RECURSIVE UnqualifyAll(_, _)
UnqualifyAll(st, ds) ==
    IF ds = << >> \/ ~st.ok THEN st
    ELSE UnqualifyAll(_unqualify_names(st.h, Head(ds), EmptyStr), Tail(ds))

\* for d in defs: if d.name is None: d.name = d.qualified_name
NameFallback(h, ds) ==
    [k \in DOMAIN h |->
        IF k \in Range(ds) /\ h[k].name = NoName
        THEN [h[k] EXCEPT !.name = h[k].qualified_name] ELSE h[k]]

(***************************************************************************)
(* Brief description and href (source.py)                                  *)
(***************************************************************************)
\* a variant that moves the paragraph out of the detailed description
_derive_brief_description_Moving(o) ==
    LET fragments == o.markup["detailed_description"].children
    IN  IF /\ ~o.markup["brief_description"].present
           /\ o.markup["detailed_description"].present
           /\ fragments # << >>
           /\ fragments[1].cls = "FormatFragment"
           /\ fragments[1].variant = "PARAGRAPH"
        THEN [o EXCEPT !.markup["brief_description"] = Markup(<<fragments[1]>>),
                       !.markup["detailed_description"] = Markup(Tail(fragments))]
        ELSE o

_derive_brief_description(o) ==
    LET fragments == o.markup["detailed_description"].children
    IN  IF /\ ~o.markup["brief_description"].present
           /\ o.markup["detailed_description"].present
           /\ fragments # << >>
           /\ fragments[1].cls = "FormatFragment"
           /\ fragments[1].variant = "PARAGRAPH"
        THEN [o EXCEPT !.markup["brief_description"] = Markup(<<fragments[1]>>)]
        ELSE o

\* d.href = d.id + '.html'; None + '.html' raises TypeError
_generate_href(o) == [o EXCEPT !.href = <<o.id, ".html">>]

FinishAll(h, ds) ==
    [k \in DOMAIN h |->
        IF k \in Range(ds) THEN _generate_href(_derive_brief_description(h[k]))
        ELSE h[k]]

FinishOk(h, ds) == \A k \in Range(ds) : h[k].id # NoneId


(***************************************************************************)
(* The units load may be given.  Ids i1, i2 name compounds a and a::b; i3  *)
(* is a member a::b::c declared in a sectiondef; i4 is an enum value;      *)
(* "missing" is defined nowhere.                                           *)
(***************************************************************************)
NameOf(id) ==
    CASE id = "i1" -> <<"a">>
      [] id = "i2" -> <<"a", "b">>
      [] id = "i3" -> <<"a", "b", "c">>
      [] OTHER -> <<"x">>

RefTo(id) == XmlRef(id, NameOf(id))

VariableMember ==
    XmlMember("variable", "i3", NameOf("i3"),
              [NoElems EXCEPT !["type"] = XmlElem(<<RefTo("i1")>>)], << >>)

TypedefMember ==
    XmlMember("typedef", "i3", NameOf("i3"),
              [NoElems EXCEPT !["type"] = XmlElem(<<RefTo("missing")>>),
                              !["detaileddescription"] = XmlElem(<<XmlPara>>)], << >>)

EnumMember ==
    XmlMember("enum", "i3", NameOf("i3"), NoElems,
              <<XmlMember("enumvalue", "i4", <<"v">>, NoElems, << >>)>>)

\* a typedef with a brief description of its own and a paragraph as detailed
\* description
BriefedMember ==
    XmlMember("typedef", "i3", NameOf("i3"),
              [NoElems EXCEPT !["briefdescription"] = XmlElem(<<RefTo("i1")>>),
                              !["detaileddescription"] = XmlElem(<<XmlPara>>)], << >>)

\* records with absent fields: a memberdef without kind attribute, a <ref/>
\* without refid and text inside a <type>, an inner* element without refid and
\* text
KindlessMember == XmlMember(NoneId, "i3", NameOf("i3"), NoElems, << >>)

BareRefMember ==
    XmlMember("typedef", "i3", NameOf("i3"),
              [NoElems EXCEPT !["type"] = XmlElem(<<XmlRef(NoneId, NoName)>>)], << >>)

BareInner == <<XmlRef(NoneId, NoName)>>

InnerChoices == {<< >>, <<RefTo("i1")>>, <<RefTo("i2")>>, <<RefTo("i3")>>,
                 <<RefTo("missing")>>}

MemberChoices == {<<VariableMember>>, <<TypedefMember>>, <<EnumMember>>}

Units ==
    {XmlUnit(k, "i1", NameOf("i1"), in, << >>) :
        k \in {"namespace", "file", "group"}, in \in InnerChoices}
    \cup {XmlUnit(k, "i2", NameOf("i2"), << >>, ms) :
        k \in {"namespace", "class", "dir"}, ms \in MemberChoices}
    \cup {XmlUnit(k, "i2", NameOf("i2"), <<RefTo("i1")>>, << >>) :
        k \in {"namespace", "dir"}}
    \cup {[XmlUnit("namespace", "i1", NameOf("i1"), << >>, << >>)
                EXCEPT !.wellformed = FALSE],
          [XmlUnit("namespace", "i1", NameOf("i1"), << >>, << >>)
                EXCEPT !.compounddef = FALSE],
          XmlUnit("example", "i1", NameOf("i1"), << >>, << >>)}
    \cup {XmlUnit("class", "i2", NameOf("i2"), << >>, <<BriefedMember>>),
          XmlUnit("namespace", "i2", NameOf("i2"), << >>, <<KindlessMember>>),
          XmlUnit("class", "i2", NameOf("i2"), << >>, <<BareRefMember>>),
          XmlUnit("namespace", "i1", NameOf("i1"), BareInner, << >>),
          XmlUnit("namespace", "i1", NoName, << >>, << >>),
          XmlUnit(NoneId, "i1", NameOf("i1"), << >>, << >>)}

(***************************************************************************)
(* load (source.py lines 1008-1030)                                        *)
(***************************************************************************)
MIdle == /\ mpc = "off" /\ mheap = << >> /\ mwarnings = << >>

DIdle ==
    /\ dpc = "off" /\ ddefs = << >> /\ render_jobs = << >>
    /\ scope_sibling_cache = << >> /\ path_sibling_cache = << >>

AIdle ==
    /\ apc = "off" /\ attributes = << >> /\ attr_before = << >> /\ attr_after = << >>

RIdle ==
    /\ rpc = "off" /\ rdefs = << >> /\ fragment = << >> /\ context = {}
    /\ html = << >>

LIdle == /\ lpc = "off" /\ ldefs = << >> /\ slugs = << >>

Init ==
    /\ pc = "parse"
    /\ heap = << >>
    /\ defs = << >>
    /\ files = << >>
    /\ file_name = 0
    /\ warnings = << >>
    /\ MIdle
    /\ DIdle
    /\ AIdle
    /\ RIdle
    /\ LIdle

\* one iteration of `for file_name in files: defs += _parse(f)`
ParseFile ==
    /\ pc = "parse"
    /\ file_name < MaxFiles
    /\ \E u \in Units :
        LET r == _parse(u, Len(heap), file_name + 1)
        IN  /\ files' = Append(files, u)
            /\ file_name' = file_name + 1
            /\ warnings' = warnings \o r.warn
            /\ IF r.ok
               THEN /\ heap' = heap \o r.objs
                    /\ defs' = defs \o r.defs
                    /\ pc' = pc
               ELSE /\ pc' = "crashed"
                    /\ UNCHANGED <<heap, defs>>
    /\ UNCHANGED <<mvars, dvars, avars, rvars, lvars>>

\* the file loop has ended: _resolve_refs(defs)
ResolveRefs ==
    /\ pc = "parse"
    /\ LET r == _resolve_refs(heap, defs, file_name)
       IN  IF r.ok
           THEN /\ heap' = r.h
                /\ warnings' = warnings \o r.warn
                /\ pc' = "resolved"
           ELSE /\ pc' = "crashed"
                /\ UNCHANGED <<heap, warnings>>
    /\ UNCHANGED <<defs, files, file_name>>
    /\ UNCHANGED <<mvars, dvars, avars, rvars, lvars>>

\* for d in defs: _assign_parents(d)
AssignParents ==
    /\ pc = "resolved"
    /\ heap' = AssignAll(heap, defs)
    /\ pc' = "assigned"
    /\ UNCHANGED <<defs, files, file_name, warnings>>
    /\ UNCHANGED <<mvars, dvars, avars, rvars, lvars>>

\* for d in defs: _unqualify_names(d)
UnqualifyNames ==
    /\ pc = "assigned"
    /\ LET r == UnqualifyAll([h |-> heap, ok |-> TRUE], defs)
       IN  IF r.ok
           THEN heap' = r.h /\ pc' = "unqualified"
           ELSE pc' = "crashed" /\ UNCHANGED heap
    /\ UNCHANGED <<defs, files, file_name, warnings>>
    /\ UNCHANGED <<mvars, dvars, avars, rvars, lvars>>

\* for d in defs: if d.name is None: d.name = d.qualified_name
FallbackNames ==
    /\ pc = "unqualified"
    /\ heap' = NameFallback(heap, defs)
    /\ pc' = "named"
    /\ UNCHANGED <<defs, files, file_name, warnings>>
    /\ UNCHANGED <<mvars, dvars, avars, rvars, lvars>>

\* for d in defs: _derive_brief_description(d); _generate_href(d); return defs
Finish ==
    /\ pc = "named"
    /\ IF FinishOk(heap, defs)
       THEN heap' = FinishAll(heap, defs) /\ pc' = "done"
       ELSE pc' = "crashed" /\ UNCHANGED heap
    /\ UNCHANGED <<defs, files, file_name, warnings>>
    /\ UNCHANGED <<mvars, dvars, avars, rvars, lvars>>

Next ==
    \/ ParseFile
    \/ ResolveRefs
    \/ AssignParents
    \/ UnqualifyNames
    \/ FallbackNames
    \/ Finish

Spec == Init /\ [][Next]_vars


(***************************************************************************)
(* Reference resolution with the classes of model.py                       *)
(***************************************************************************)
MaxModelDefs == 2
MaxMembers == 2

\* model.py _warning(msg, file_name) takes two positional arguments: a call with
\* any other number of arguments raises TypeError before anything is printed
Model_warning_raises(nargs) == nargs # 2

\* a model.py CompoundDef as far as resolve_refs reads it: its id and members
\* (all Markup attributes None)
Model_CompoundDef(id, members) ==
    [cls |-> "NamespaceDef", id |-> id, members |-> members]

ModelIds == {"i1", "i2"}
ModelRefs == {SymbolicRef("i1", NameOf("i1")), SymbolicRef("i2", NameOf("i2")),
              SymbolicRef("missing", NameOf("missing")), UnresolvedRef(NameOf("i3"))}
ModelMemberLists == UNION {[1..n -> ModelRefs] : n \in 0..MaxMembers}

\* model.py SymbolicRef.resolve: ResolvedRef(defs[self.id]), or on KeyError the
\* one-argument call _warning('Unresolved reference ' + self.id), whose TypeError
\* leaves the handler before UnresolvedRef(self.name) is returned
Model_SymbolicRef_resolve(r, h, ds) ==
    IF IdDefined(h, ds, r.id)
    THEN [ref |-> ResolvedRef(IdLookup(h, ds, r.id)), raised |-> FALSE, warned |-> FALSE]
    ELSE IF Model_warning_raises(1)
    THEN [ref |-> r, raised |-> TRUE, warned |-> FALSE]
    ELSE [ref |-> UnresolvedRef(r.name), raised |-> FALSE, warned |-> TRUE]

\* model.py Ref.resolve returns self
Model_Ref_resolve(r, h, ds) ==
    IF r.tag = "Symbolic" THEN Model_SymbolicRef_resolve(r, h, ds)
    ELSE [ref |-> r, raised |-> FALSE, warned |-> FALSE]

\* model.py CompoundDef.resolve_refs from member i on:
\* self.members[i] = self.members[i].resolve(defs), stopping at an exception
RECURSIVE Model_CompoundDef_resolve_refs(_, _, _, _)
Model_CompoundDef_resolve_refs(st, i, h, ds) ==
    IF i > Len(st.o.members) \/ ~st.ok THEN st
    ELSE LET r == Model_Ref_resolve(st.o.members[i], h, ds)
         IN  Model_CompoundDef_resolve_refs(
                [o |-> IF r.raised THEN st.o ELSE [st.o EXCEPT !.members[i] = r.ref],
                 warn |-> IF r.warned
                          THEN Append(st.warn, Warning(0, "Unresolved reference",
                                                       st.o.members[i].id))
                          ELSE st.warn,
                 ok |-> ~r.raised],
                i + 1, h, ds)

\* defs = dict((d.id, d) for d in def_list); for d in def_list:
\* d.resolve_refs(defs), from definition k on, stopping at an exception
RECURSIVE Model_resolve_refs(_, _, _)
Model_resolve_refs(st, k, ds) ==
    IF k > Len(ds) \/ ~st.ok THEN st
    ELSE LET r == Model_CompoundDef_resolve_refs(
                    [o |-> st.h[ds[k]], warn |-> st.warn, ok |-> TRUE], 1, st.h, ds)
         IN  Model_resolve_refs(
                [h |-> [st.h EXCEPT ![ds[k]] = r.o], warn |-> r.warn, ok |-> r.ok],
                k + 1, ds)

SourceIdle ==
    /\ pc = "off" /\ heap = << >> /\ defs = << >> /\ files = << >>
    /\ file_name = 0 /\ warnings = << >>

InitM ==
    /\ SourceIdle
    /\ mpc = "import"
    /\ mheap = << >>
    /\ mwarnings = << >>
    /\ DIdle
    /\ AIdle
    /\ RIdle
    /\ LIdle

\* one more compound definition joins the merged definition list
MImport ==
    /\ mpc = "import"
    /\ Len(mheap) < MaxModelDefs
    /\ \E id \in ModelIds : \E ms \in ModelMemberLists :
            mheap' = Append(mheap, Model_CompoundDef(id, ms))
    /\ UNCHANGED <<mpc, mwarnings>>
    /\ UNCHANGED <<svars, dvars, avars, rvars, lvars>>

\* the resolution pass over the merged definition list
MResolveRefs ==
    /\ mpc = "import"
    /\ LET ds == [i \in DOMAIN mheap |-> i]
           r == Model_resolve_refs([h |-> mheap, warn |-> << >>, ok |-> TRUE], 1, ds)
       IN  /\ mheap' = r.h
           /\ mwarnings' = mwarnings \o r.warn
           /\ mpc' = IF r.ok THEN "resolved" ELSE "raised"
    /\ UNCHANGED <<svars, dvars, avars, rvars, lvars>>

NextM ==
    \/ MImport
    \/ MResolveRefs

SpecM == InitM /\ [][NextM]_vars


(***************************************************************************)
(* Properties of load                                                      *)
(***************************************************************************)
\* every Reference held by object o itself: the cross-reference fragments of
\* every Markup attribute and the compound members
RECURSIVE AllSlotRefs(_, _)
AllSlotRefs(o, todo) ==
    IF todo = {} THEN {}
    ELSE LET s == CHOOSE x \in todo : TRUE
         IN  Range(MarkupRefs(o.markup[s])) \cup AllSlotRefs(o, todo \ {s})

ReachableRefs(k) ==
    AllSlotRefs(heap[k], Slots) \cup Range(heap[k].members)
        \cup UNION {AllSlotRefs(heap[v], Slots) : v \in Range(heap[k].values)}

Loaded == pc = "done"
ParentsAssigned == pc \in {"assigned", "unqualified", "named", "done"}

\* C1: after load completes, every Reference reachable from a Definition of the
\* result is Resolved or Unresolved; none is still Symbolic.
C1_NoSymbolicSurvives ==
    Loaded => \A i \in DOMAIN defs : \A r \in ReachableRefs(defs[i]) :
                    r.tag \in {"Resolved", "Unresolved"}

\* C2: the ids of the Definitions of the load result are pairwise distinct,
\* also when a source id is recorded in more than one unit.
C2_IdsPairwiseDistinct ==
    Loaded => \A i, j \in DOMAIN defs : i # j => heap[defs[i]].id # heap[defs[j]].id

\* the kinds the spec makes scope-eligible (they carry a scope slug) and
\* file-eligible (the file-locatable kinds)
ScopeEligible == {"MacroDef", "TypedefDef", "FunctionDef", "VariableDef", "PropertyDef",
                  "FriendDef", "EnumValueDef", "EnumDef", "NamespaceDef", "ClassDef"}
FileEligible == SingleDefClasses

\* C3: after parent assignment every scope-eligible Definition has a scope_parent
\* and every file-eligible Definition a file_parent (a synthetic root when no
\* compound lists it).
C3_ParentsTotal ==
    ParentsAssigned =>
        \A i \in DOMAIN defs :
            /\ heap[defs[i]].cls \in ScopeEligible => heap[defs[i]].scope_parent # NoObj
            /\ heap[defs[i]].cls \in FileEligible => heap[defs[i]].file_parent # NoObj


\* what resolving reference r against the id map of definitions ds of h has to
\* give: Resolved with a target of that id, or Unresolved with the same name
ResolvesAsSpecified(r, res, h, ds) ==
    IF IdDefined(h, ds, r.id)
    THEN res.tag = "Resolved" /\ h[res.definition].id = r.id
    ELSE res = UnresolvedRef(r.name)

\* C4: resolving a Symbolic{id, name} member reference against the id map of the
\* complete merged definition list gives Resolved{target} with target.id = id
\* when the id is defined and Unresolved{name} otherwise (model.py classes).
C4_SymbolicResolvesByIdMap ==
    [][MResolveRefs =>
        \A k \in DOMAIN mheap : \A i \in DOMAIN mheap[k].members :
            mheap[k].members[i].tag = "Symbolic" =>
                ResolvesAsSpecified(mheap[k].members[i], mheap'[k].members[i],
                                    mheap, [j \in DOMAIN mheap |-> j])]_vars

\* the same statement for the member references source.py resolves
SourceResolvesByIdMap ==
    [][(ResolveRefs /\ pc' = "resolved") =>
        \A k \in Range(defs) : \A i \in DOMAIN heap[k].members :
            heap[k].members[i].tag = "Symbolic" =>
                ResolvesAsSpecified(heap[k].members[i], heap'[k].members[i],
                                    heap, defs)]_vars

\* C5: a Symbolic reference with an id no definition has never aborts the pass:
\* the pass completes, the reference has become Unresolved, a diagnostic was
\* emitted and no other reference is left Symbolic (model.py classes).
C5_DanglingRefNeverAborts ==
    mpc # "import" =>
        /\ mpc = "resolved"
        /\ \A k \in DOMAIN mheap : \A i \in DOMAIN mheap[k].members :
                mheap[k].members[i].tag # "Symbolic"
        /\ (\E k \in DOMAIN mheap : \E i \in DOMAIN mheap[k].members :
                mheap[k].members[i] = UnresolvedRef(NameOf("missing")))
            => mwarnings # << >>

\* the same statement for source.py: a missing id makes no pass fail, the
\* members are Resolved or Unresolved and the diagnostic names the id
SourceDanglingRefNeverAborts ==
    pc \in {"resolved", "assigned", "unqualified", "named", "done"} =>
        \A k \in Range(defs) : \A i \in DOMAIN heap[k].members :
            /\ heap[k].members[i].tag \in {"Resolved", "Unresolved"}
            /\ heap[k].members[i] = UnresolvedRef(NameOf("missing"))
                => \E w \in DOMAIN warnings : warnings[w].id = "missing"

\* C6: after load, the name of a Definition with a real scope parent P is its
\* qualified_name without the leading P.qualified_name + '::' when it starts with
\* that prefix and the full qualified_name otherwise; a top-level Definition keeps
\* its qualified_name; also when several compounds list the Definition.
C6_NameRelativeToScopeParent ==
    Loaded =>
        \A i \in DOMAIN defs :
            LET d == heap[defs[i]]
                P == d.scope_parent
            IN  (d.qualified_name # NoName
                 /\ (P # NoObj => heap[P].qualified_name # NoName)) =>
                    d.name = IF P # NoObj
                                /\ StartsWith(d.qualified_name,
                                              PlusScope(heap[P].qualified_name))
                             THEN StripPrefix(d.qualified_name,
                                              PlusScope(heap[P].qualified_name))
                             ELSE d.qualified_name

\* every Definition load created: those of the result and the enum values
\* synthesized during import
AllDefinitions == Range(defs) \cup UNION {Range(heap[k].values) : k \in Range(defs)}

\* C7: after load the name of every Definition, enum values included, is neither
\* None nor the empty string.
C7_NamesNeverEmpty ==
    Loaded => \A k \in AllDefinitions : heap[k].name # NoName /\ heap[k].name # EmptyStr

\* the positions in defs of the compounds of the relation that list k as a
\* Resolved member
RelationClasses(rel) ==
    IF rel = "file" THEN {"FileDef", "DirectoryDef"} ELSE {"NamespaceDef", "ClassDef"}

Listers(k, rel) ==
    {i \in DOMAIN defs :
        /\ heap[defs[i]].cls \in RelationClasses(rel)
        /\ \E j \in DOMAIN heap[defs[i]].members :
                /\ heap[defs[i]].members[j].tag = "Resolved"
                /\ heap[defs[i]].members[j].definition = k
        /\ rel = "file" => heap[k].cls \in SingleDefClasses}

ParentOf(k, rel) == IF rel = "file" THEN heap[k].file_parent ELSE heap[k].scope_parent

\* C8: parent assignment makes a Namespace, Class or Enum the scope_parent of its
\* members: a Definition that exactly one Namespace or Class lists as a Resolved
\* member has that compound as scope_parent, and an enum's values have the enum.
C8_ScopeParentOfMembers ==
    ParentsAssigned =>
        /\ \A k \in DOMAIN heap : \A i \in DOMAIN defs :
                Listers(k, "scope") = {i} => heap[k].scope_parent = defs[i]
        /\ \A i \in DOMAIN defs :
                heap[defs[i]].cls = "EnumDef" =>
                    \A v \in Range(heap[defs[i]].values) :
                        heap[v].scope_parent = defs[i]

\* the Namespace and Class half of C8 alone
ScopeParentOfListedMembers ==
    ParentsAssigned =>
        \A k \in DOMAIN heap : \A i \in DOMAIN defs :
            Listers(k, "scope") = {i} => heap[k].scope_parent = defs[i]

MaxOf(S) == CHOOSE x \in S : \A y \in S : y <= x

\* C9: a Definition that more than one eligible compound of a relation lists as
\* a Resolved member has, after assignment, the compound that comes last in the
\* merged definition list as its parent of that relation.
C9_LastListerWins ==
    ParentsAssigned =>
        \A k \in DOMAIN heap : \A rel \in {"scope", "file"} :
            Cardinality(Listers(k, rel)) > 1 =>
                ParentOf(k, rel) = defs[MaxOf(Listers(k, rel))]

\* C9 witness: parents are assigned and two different Namespace/Class compounds
\* list the same Definition, whose scope_parent is the later one
C9_Witness ==
    /\ ParentsAssigned
    /\ \E k \in DOMAIN heap : \E i, j \in Listers(k, "scope") :
            i < j /\ j = MaxOf(Listers(k, "scope")) /\ heap[k].scope_parent = defs[j]

\* the object reached from k after n parent steps (None stays None)
RECURSIVE Up(_, _, _)
Up(k, n, rel) ==
    IF n = 0 \/ k = NoObj THEN k ELSE Up(ParentOf(k, rel), n - 1, rel)

\* C10: after parent assignment neither parent relation has a cycle: every
\* ancestor walk ends at None.
C10_ParentsAcyclic ==
    ParentsAssigned =>
        \A k \in DOMAIN heap : \A rel \in {"scope", "file"} :
            Up(k, Len(heap), rel) = NoObj

(***************************************************************************)
(* Slugs (model.py) and the final ids identity finalization has to give    *)
(***************************************************************************)
\* _NON_SLUG_CHARS.sub('', s.lower()) of one name segment: the lowercase
\* letters and dashes stay, every other character (and the '::' between
\* segments) goes
SegmentSlug(seg) ==
    CASE seg \in {"a", "b", "c", "v", "x"} -> <<seg>>
      [] seg \in {"~a", "A"} -> <<"a">>
      [] OTHER -> << >>

RECURSIVE NameSlug(_)
NameSlug(name) ==
    IF name = << >> THEN << >> ELSE SegmentSlug(Head(name)) \o NameSlug(Tail(name))

\* the kind tag the slug method of the class puts in front
SlugTag(cls) ==
    CASE cls = "MacroDef" -> "m"
      [] cls = "TypedefDef" -> "t"
      [] cls = "FunctionDef" -> "fn"
      [] cls = "VariableDef" -> "v"
      [] cls = "PropertyDef" -> "p"
      [] cls = "FriendDef" -> "fr"
      [] cls \in {"EnumValueDef", "EnumVariantDef"} -> "ev"
      [] cls = "EnumDef" -> "e"
      [] cls = "DirectoryDef" -> "dir"
      [] cls = "FileDef" -> "file"
      [] cls = "NamespaceDef" -> "ns"
      [] cls = "GroupDef" -> "g"
      [] cls = "PageDef" -> "page"
      [] OTHER -> "c"

\* SymbolDef.slug: the names of the scope ancestors up to the first IndexDef,
\* outermost first, joined to the own name by dashes (n bounds the walk)
RECURSIVE SymbolDef_slug(_, _, _, _)
SymbolDef_slug(h, slug, scope_parent, n) ==
    IF scope_parent = NoObj \/ n = 0 THEN slug
    ELSE IF h[scope_parent].cls = "IndexDef" THEN slug
    ELSE SymbolDef_slug(h, NameSlug(h[scope_parent].name) \o <<"-">> \o slug,
                        h[scope_parent].scope_parent, n - 1)

\* PathDef.slug: the loop walks file_parent but formats self.file_parent.name
RECURSIVE PathDef_slug(_, _, _, _, _)
PathDef_slug(h, self, slug, file_parent, n) ==
    IF file_parent = NoObj \/ n = 0 THEN slug
    ELSE IF h[file_parent].cls = "IndexDef" THEN slug
    ELSE PathDef_slug(h, self, NameSlug(h[h[self].file_parent].name) \o <<"-">> \o slug,
                      h[file_parent].file_parent, n - 1)

\* cls.slug(): tag, dash, and the slug of SymbolDef, PathDef or the bare name
Def_slug(h, k) ==
    <<SlugTag(h[k].cls), "-">> \o
        (IF h[k].cls \in {"DirectoryDef", "FileDef"}
         THEN PathDef_slug(h, k, NameSlug(h[k].name), h[k].file_parent, Len(h))
         ELSE IF h[k].cls \in {"GroupDef", "PageDef"}
         THEN NameSlug(h[k].name)
         ELSE SymbolDef_slug(h, NameSlug(h[k].name), h[k].scope_parent, Len(h)))

\* the characters of an id string and the order of the ids
IdChars(id) ==
    CASE id = "i1" -> <<"i", "1">>
      [] id = "i2" -> <<"i", "2">>
      [] id = "i3" -> <<"i", "3">>
      [] id = "i4" -> <<"i", "4">>
      [] OTHER -> <<id>>

IdRank(id) ==
    CASE id = "i1" -> 1 [] id = "i2" -> 2 [] id = "i3" -> 3 [] id = "i4" -> 4
      [] OTHER -> 5

DigitChars(n) ==
    CASE n = 1 -> <<"1">> [] n = 2 -> <<"2">> [] n = 3 -> <<"3">> [] n = 4 -> <<"4">>
      [] n = 5 -> <<"5">> [] n = 6 -> <<"6">> [] n = 7 -> <<"7">> [] OTHER -> <<"8">>

\* position i of defs is visited before position j: ascending id as imported,
\* list order among equal ids
VisitedBefore(i, j, ids) ==
    \/ IdRank(ids[i]) < IdRank(ids[j])
    \/ IdRank(ids[i]) = IdRank(ids[j]) /\ i < j

\* the final id of position i: its slug, with -N when N >= 1 Definitions of
\* the same slug are visited before it (a slug holds no digit, so slug-N is
\* never the slug of another Definition)
SpecifiedFinalId(i) ==
    LET slug == Def_slug(heap, defs[i])
        ids == [j \in DOMAIN defs |-> heap[defs[j]].id]
        N == Cardinality({j \in DOMAIN defs :
                            /\ VisitedBefore(j, i, ids)
                            /\ Def_slug(heap, defs[j]) = slug})
    IN  IF N = 0 THEN slug ELSE slug \o <<"-">> \o DigitChars(N)

\* C11: identity finalization visits the Definitions in ascending order of
\* their ids as imported and gives the first Definition of a slug the bare slug
\* and each later one slug-N for the smallest free N >= 1: every id of the load
\* result is that final id.
C11_FinalIdIsSlugWithSuffix ==
    Loaded => \A i \in DOMAIN defs :
                IdChars(heap[defs[i]].id) = SpecifiedFinalId(i)

(***************************************************************************)
(* load as a function of the list of units                                 *)
(***************************************************************************)
\* the file loop of load over the units us, from unit n on
RECURSIVE ParseAll(_, _, _)
ParseAll(st, us, n) ==
    IF n > Len(us) \/ ~st.ok THEN st
    ELSE LET r == _parse(us[n], Len(st.h), n)
         IN  ParseAll([h |-> st.h \o r.objs, ds |-> st.ds \o r.defs, ok |-> r.ok],
                      us, n + 1)

\* load(files): the heap and the list it returns; ok is FALSE when an
\* exception leaves load
load(us) ==
    LET parsed == ParseAll([h |-> << >>, ds |-> << >>, ok |-> TRUE], us, 1)
        resolved == _resolve_refs(parsed.h, parsed.ds, Len(us))
        assigned == AssignAll(resolved.h, parsed.ds)
        unqualified == UnqualifyAll([h |-> assigned, ok |-> TRUE], parsed.ds)
        named == NameFallback(unqualified.h, parsed.ds)
    IN  IF parsed.ok /\ resolved.ok /\ unqualified.ok /\ FinishOk(named, parsed.ds)
        THEN [h |-> FinishAll(named, parsed.ds), ds |-> parsed.ds, ok |-> TRUE]
        ELSE [h |-> << >>, ds |-> << >>, ok |-> FALSE]

\* the assignments of a load result: per Definition its id, name, href and the
\* ids of its parents
IdOf(h, k) == IF k = NoObj THEN NoneId ELSE h[k].id

Assignments(h, ds) ==
    {[id |-> h[k].id, name |-> h[k].name, href |-> h[k].href,
      scope_parent |-> IdOf(h, h[k].scope_parent),
      file_parent |-> IdOf(h, h[k].file_parent)] : k \in Range(ds)}

\* C12: the ids, names, hrefs and parents load assigns depend only on the set of
\* units: loading the same units in any other order gives the same assignments.
C12_MergeOrderIrrelevant ==
    Loaded =>
        \A p \in Permutations(DOMAIN files) :
            LET other == load([i \in DOMAIN files |-> files[p[i]]])
            IN  other.ok /\ Assignments(other.h, other.ds) = Assignments(heap, defs)

\* load(files) is what the steps of load arrive at
LoadMatchesSteps ==
    /\ Loaded => LET r == load(files)
                 IN  r.ok /\ r.h = heap /\ r.ds = defs
    /\ (pc = "crashed") => ~load(files).ok

\* the Definitions the locator rule anchors in the page of their owner:
\* variables, functions and typedefs whose scope parent is a Class, and enum
\* variants
AnchoredInOwner(h, k) ==
    \/ /\ h[k].cls \in {"VariableDef", "FunctionDef", "TypedefDef"}
       /\ h[k].scope_parent # NoObj
       /\ h[h[k].scope_parent].cls = "ClassDef"
    \/ h[k].cls = "EnumValueDef"

\* C13: locator assignment gives every Definition of the graph its own page
\* (href = the page of its id, written id + '.html'), except that a variable,
\* function or typedef owned by a Class and an enum variant get the href
\* <owner page>#<own id>; no Definition is left without locator.
C13_LocatorAssignment ==
    Loaded =>
        \A k \in AllDefinitions :
            IF AnchoredInOwner(heap, k)
            THEN /\ heap[k].scope_parent # NoObj
                 /\ heap[k].href = <<heap[heap[k].scope_parent].id, ".html#", heap[k].id>>
            ELSE heap[k].href = <<heap[k].id, ".html">>

\* the own-page half of C13 for the Definitions of the list load returns
OwnPageLocators ==
    Loaded =>
        \A k \in Range(defs) :
            ~AnchoredInOwner(heap, k) => heap[k].href = <<heap[k].id, ".html">>

\* C14: applying the unqualification pass a second time to the graph the first
\* application produced leaves every name unchanged (the loop over
\* _unqualify_names alone, and the loop followed by the name fallback).
C14_UnqualificationIdempotent ==
    LET again == UnqualifyAll([h |-> heap, ok |-> TRUE], defs)
    IN  /\ pc = "unqualified" =>
            /\ again.ok
            /\ \A k \in DOMAIN heap : again.h[k].name = heap[k].name
        /\ pc = "named" =>
            /\ again.ok
            /\ \A k \in DOMAIN heap :
                    NameFallback(again.h, defs)[k].name = heap[k].name

\* C14 witness: the pass has run and cut a prefix off the name of a Definition
\* that two compounds list
C14_Witness ==
    /\ pc = "unqualified"
    /\ \E k \in Range(defs) :
            /\ heap[k].name # NoName
            /\ heap[k].name # heap[k].qualified_name
            /\ Cardinality({i \in DOMAIN defs :
                    \E j \in DOMAIN heap[defs[i]].members :
                        /\ heap[defs[i]].members[j].tag = "Resolved"
                        /\ heap[defs[i]].members[j].definition = k}) > 1

\* what _derive_brief_description finds: no brief description and a paragraph
\* as first child of the detailed description
BriefDerivable(o) ==
    /\ ~o.markup["brief_description"].present
    /\ o.markup["detailed_description"].present
    /\ o.markup["detailed_description"].children # << >>
    /\ o.markup["detailed_description"].children[1] = FormatFragment("PARAGRAPH")

\* C15: the brief/href loop of load changes the descriptions of a Definition
\* only when it has no brief description and its detailed description starts
\* with a paragraph: the brief description then holds that fragment alone, the
\* detailed description keeps all its children, and a brief description that
\* exists is not overwritten.
C15_BriefDerivationFrame ==
    [][(Finish /\ pc' = "done") =>
        \A k \in DOMAIN heap :
            /\ heap'[k].markup["detailed_description"]
                    = heap[k].markup["detailed_description"]
            /\ heap'[k].markup["brief_description"]
                    = IF k \in Range(defs) /\ BriefDerivable(heap[k])
                      THEN Markup(<<heap[k].markup["detailed_description"].children[1]>>)
                      ELSE heap[k].markup["brief_description"]
            /\ \A s \in Slots \ {"brief_description", "detailed_description"} :
                    heap'[k].markup[s] = heap[k].markup[s]]_vars

\* C15 witness: load has returned a Definition whose derived brief description
\* is the paragraph its detailed description still starts with, next to a
\* Definition that kept the brief description it was imported with
C15_Witness ==
    /\ Loaded
    /\ \E k \in Range(defs) :
            /\ heap[k].markup["detailed_description"].present
            /\ heap[k].markup["detailed_description"].children # << >>
            /\ heap[k].markup["brief_description"]
                    = Markup(<<heap[k].markup["detailed_description"].children[1]>>)
    /\ \E k \in Range(defs) :
            /\ heap[k].markup["brief_description"].present
            /\ heap[k].markup["detailed_description"].present
            /\ heap[k].markup["detailed_description"].children # << >>
            /\ heap[k].markup["brief_description"]
                    # Markup(<<heap[k].markup["detailed_description"].children[1]>>)

(***************************************************************************)
(* Rendering: doctree (doctree.py) over the classes of model.py            *)
(***************************************************************************)
MaxTreeDefs == 2
MaxSiblings == 2

\* the classes of model.py that derive from CompoundDef
ModelCompoundClasses == {"IndexDef", "PageDef", "GroupDef", "DirectoryDef", "FileDef",
                         "NamespaceDef", "EnumDef", "ClassDef"}

\* FunctionDef.Variant and ClassDef.Variant, lower-cased names; NoneId is the
\* variant None the constructors assign
FunctionVariants == {"function", "signal", "slot", "constructor", "destructor"}
ClassVariants == {"class", "struct", "union", "protocol", "interface", "category"}

\* every (class, variant) a model.py Def object can have
ModelShapes ==
    {<<c, NoneId>> : c \in {"IndexDef", "PageDef", "GroupDef", "DirectoryDef", "FileDef",
                            "NamespaceDef", "EnumDef", "EnumVariantDef", "MacroDef",
                            "TypedefDef", "VariableDef", "PropertyDef", "FriendDef",
                            "FunctionDef", "ClassDef"}}
    \cup {<<"FunctionDef", v>> : v \in FunctionVariants}
    \cup {<<"ClassDef", v>> : v \in ClassVariants}

\* a model.py Def after construction and linking: Def.__init__ leaves page and
\* href None
Model_Def(shape, id, scope_parent, file_parent, members) ==
    [cls |-> shape[1], variant |-> shape[2], id |-> id,
     scope_parent |-> scope_parent, file_parent |-> file_parent,
     members |-> members, page |-> NoHref, href |-> NoHref]

\* the kind() methods of model.py; NoneId stands for None
Model_kind(o) ==
    CASE o.cls = "MacroDef" -> "macro"
      [] o.cls = "TypedefDef" -> "typedef"
      [] o.cls = "FunctionDef" -> o.variant
      [] o.cls = "VariableDef" -> "variable"
      [] o.cls = "PropertyDef" -> "property"
      [] o.cls = "FriendDef" -> "friend"
      [] o.cls = "EnumVariantDef" -> "enum-variant"
      [] o.cls = "EnumDef" -> "enum"
      [] o.cls = "DirectoryDef" -> "directory"
      [] o.cls = "FileDef" -> "file"
      [] o.cls = "NamespaceDef" -> "namespace"
      [] o.cls = "GroupDef" -> "group"
      [] o.cls = "PageDef" -> "page"
      [] o.cls = "ClassDef" -> o.variant
      [] o.cls = "IndexDef" -> "index"

\* class SymbolCategory(Enum): member name -> value
SymbolCategory ==
    "PAGE" :> 0 @@ "DIRECTORY" :> 1 @@ "FILE" :> 2 @@ "NAMESPACE" :> 3 @@ "MACRO" :> 4
    @@ "TYPE" :> 5 @@ "VARIANT" :> 6 @@ "CONSTRUCTOR" :> 7 @@ "DESTRUCTOR" :> 8
    @@ "FUNCTION" :> 9 @@ "SIGNAL" :> 10 @@ "SLOT" :> 11 @@ "PROPERTY" :> 12
    @@ "VARIABLE" :> 13 @@ "FRIEND" :> 14

\* the dict KIND_CATEGORIES: kind -> member name of SymbolCategory
KIND_CATEGORIES ==
    [k \in {"index", "page", "group", "directory", "file", "namespace", "package",
            "macro", "typedef", "struct", "class", "union", "protocol", "category",
            "interface", "enum", "enum-class", "enum-variant", "constructor",
            "destructor", "property", "function", "signal", "slot", "variable",
            "friend"} |->
        CASE k \in {"index", "page", "group"} -> "PAGE"
          [] k = "directory" -> "DIRECTORY"
          [] k = "file" -> "FUNCTION"
          [] k \in {"namespace", "package"} -> "NAMESPACE"
          [] k = "macro" -> "MACRO"
          [] k \in {"typedef", "struct", "class", "union", "protocol", "category",
                    "interface", "enum", "enum-class"} -> "TYPE"
          [] k = "enum-variant" -> "VARIANT"
          [] k = "constructor" -> "CONSTRUCTOR"
          [] k = "destructor" -> "DESTRUCTOR"
          [] k = "property" -> "PROPERTY"
          [] k = "function" -> "FUNCTION"
          [] k = "signal" -> "SIGNAL"
          [] k = "slot" -> "SLOT"
          [] k = "variable" -> "VARIABLE"
          [] k = "friend" -> "FRIEND"]

\* category(d) raises KeyError when d.kind() is no key of KIND_CATEGORIES
category_raises(o) == Model_kind(o) \notin DOMAIN KIND_CATEGORIES

\* category(d): KIND_CATEGORIES[d.kind()]
category(o) == KIND_CATEGORIES[Model_kind(o)]

\* the definitions of the ResolvedRef members of a compound, in list order
RECURSIVE ResolvedMembers(_)
ResolvedMembers(ms) ==
    IF ms = << >> THEN << >>
    ELSE (IF Head(ms).tag = "Resolved" THEN <<Head(ms).definition>> ELSE << >>)
         \o ResolvedMembers(Tail(ms))

\* the context prepare_render builds: the definition and its scope ancestors
RECURSIVE render_context(_, _)
render_context(ds, k) ==
    IF k = NoObj THEN {} ELSE {k} \cup render_context(ds, ds[k].scope_parent)

\* the links Def.qualified_name_html(context) of model.py puts before the
\* definition's own: one (kind, href) per scope ancestor, outermost first, up
\* to the first one that is None, an IndexDef or in the context
RECURSIVE scope_links(_, _, _)
scope_links(ds, p, ctx) ==
    IF p = NoObj THEN << >>
    ELSE IF ds[p].cls = "IndexDef" \/ p \in ctx THEN << >>
    ELSE scope_links(ds, ds[p].scope_parent, ctx)
         \o <<[kind |-> Model_kind(ds[p]), href |-> ds[p].href]>>

\* Def.qualified_name_html(context) of model.py as the list of its links
qualified_name_html(ds, k, ctx) ==
    scope_links(ds, ds[k].scope_parent, ctx)
    \o <<[kind |-> Model_kind(ds[k]), href |-> ds[k].href]>>

\* describe(d, context): the entries of the dict made of d.id, d.href and the
\* links of the name
describe(ds, m, ctx) ==
    [id |-> ds[m].id, name_html |-> qualified_name_html(ds, m, ctx),
     href |-> ds[m].href]

\* members_by_cat: category -> the descriptions appended to it, in order
members_by_cat(ds, ms, ctx) ==
    [c \in {category(ds[ms[i]]) : i \in DOMAIN ms} |->
        LET of_cat == SelectSeq(ms, LAMBDA m : category(ds[m]) = c)
        IN  [i \in DOMAIN of_cat |-> describe(ds, of_cat[i], ctx)]]

\* sorted_categories: the (title, members) pairs ordered by the category's value;
\* within a category the members are sorted by member_order, kept here in
\* list order
RECURSIVE sorted_categories(_)
sorted_categories(by_cat) ==
    IF DOMAIN by_cat = {} THEN << >>
    ELSE LET c == CHOOSE x \in DOMAIN by_cat :
                    \A y \in DOMAIN by_cat : SymbolCategory[x] <= SymbolCategory[y]
         IN  <<[title |-> c, members |-> by_cat[c]]>>
             \o sorted_categories([y \in DOMAIN by_cat \ {c} |-> by_cat[y]])

\* sibling_cats(parent, context, cache): the cached entry, or on KeyError the
\* categories of the parent's resolved members, stored under parent.id
sibling_cats(ds, parent, ctx, cache) ==
    LET ms == ResolvedMembers(ds[parent].members)
    IN  IF ds[parent].id \in DOMAIN cache
        THEN [ok |-> TRUE, cats |-> cache[ds[parent].id], cache |-> cache]
        ELSE IF \/ ds[parent].cls \notin ModelCompoundClasses
                \/ \E i \in DOMAIN ms : category_raises(ds[ms[i]])
        THEN [ok |-> FALSE, cats |-> << >>, cache |-> cache]
        ELSE LET cats == sorted_categories(members_by_cat(ds, ms, ctx))
             IN  [ok |-> TRUE, cats |-> cats,
                  cache |-> [i \in DOMAIN cache \cup {ds[parent].id} |->
                                IF i = ds[parent].id THEN cats ELSE cache[i]]]

\* prepare_render(definition) for definition ds[k]: the script, the two caches
\* afterwards, and whether it returned
prepare_render(ds, k, scache, pcache) ==
    LET d == ds[k]
        ctx == render_context(ds, k)
        ms == IF d.cls \in ModelCompoundClasses THEN ResolvedMembers(d.members) ELSE << >>
        own_ok == \A i \in DOMAIN ms : ~category_raises(ds[ms[i]])
        sc == IF own_ok /\ d.scope_parent # NoObj
              THEN sibling_cats(ds, d.scope_parent, ctx, scache)
              ELSE [ok |-> own_ok, cats |-> << >>, cache |-> scache]
        pa == IF sc.ok /\ d.file_parent # NoObj
              THEN sibling_cats(ds, d.file_parent, ctx, pcache)
              ELSE [ok |-> sc.ok, cats |-> << >>, cache |-> pcache]
    IN  [ok |-> pa.ok,
         scache |-> sc.cache,
         pcache |-> pa.cache,
         script |-> IF pa.ok
                    THEN [id |-> d.id,
                          scope_parent_href |-> IF d.scope_parent # NoObj
                                                THEN ds[d.scope_parent].href ELSE NoHref,
                          file_parent_href |-> IF d.file_parent # NoObj
                                               THEN ds[d.file_parent].href ELSE NoHref,
                          member_cats |-> sorted_categories(members_by_cat(ds, ms, ctx)),
                          scope_sibling_cats |-> sc.cats,
                          path_sibling_cats |-> pa.cats]
                    ELSE [id |-> d.id]]

\* doctree._generate_href(d): a variable, function or typedef whose scope parent
\* is a ClassDef, and every enum variant, gets page None and the href
\* '<scope_parent.id>.html#<id>'; d.scope_parent.id raises AttributeError when
\* the scope parent is None, after d.page was assigned.  Everything else gets
\* page '<id>.html' and the same href.
Model_generate_href(ds, k) ==
    LET d == ds[k]
        anchored ==
            \/ /\ d.cls \in {"VariableDef", "FunctionDef", "TypedefDef"}
               /\ d.scope_parent # NoObj
               /\ ds[d.scope_parent].cls = "ClassDef"
            \/ d.cls = "EnumVariantDef"
    IN  IF anchored /\ d.scope_parent = NoObj
        THEN [ok |-> FALSE, ds |-> [ds EXCEPT ![k].page = NoHref]]
        ELSE IF anchored
        THEN [ok |-> TRUE,
              ds |-> [ds EXCEPT ![k].page = NoHref,
                                ![k].href = <<ds[d.scope_parent].id, ".html#", d.id>>]]
        ELSE [ok |-> TRUE,
              ds |-> [ds EXCEPT ![k].page = <<d.id, ".html">>,
                                ![k].href = <<d.id, ".html">>]]

\* the loop of doctree from definition k on:
\*   for d in defs: _generate_href(d); if d.page is not None:
\*       render_jobs.append((os.path.join(outdir, d.page), prepare_render(d)))
\* stopping at an exception
RECURSIVE doctree(_, _)
doctree(st, k) ==
    IF k > Len(st.ds) \/ ~st.ok THEN st
    ELSE LET g == Model_generate_href(st.ds, k)
             r == prepare_render(g.ds, k, st.scache, st.pcache)
         IN  IF ~g.ok THEN [st EXCEPT !.ds = g.ds, !.ok = FALSE]
             ELSE IF g.ds[k].page = NoHref
             THEN doctree([st EXCEPT !.ds = g.ds], k + 1)
             ELSE doctree(
                    [ds |-> g.ds, scache |-> r.scache, pcache |-> r.pcache,
                     jobs |-> IF r.ok
                              THEN Append(st.jobs, [page |-> g.ds[k].page,
                                                    script |-> r.script])
                              ELSE st.jobs,
                     ok |-> r.ok],
                    k + 1)

\* the graphs handed to doctree: a first definition and up to MaxTreeDefs - 1
\* further ones, each either unrelated to the first or a member of it (scope
\* parent) or a path child of it (file parent)
TreeLinks == {"none", "scope", "path"}

TreeChild(shape, id, link) ==
    Model_Def(shape, id,
              IF link = "scope" THEN 1 ELSE NoObj,
              IF link = "path" THEN 1 ELSE NoObj, << >>)

\* the graphs of n definitions
TreeGraphs(n) ==
    {[k \in 1..n |->
        IF k = 1
        THEN Model_Def(root, "i1", NoObj, NoObj,
                       [j \in 1..Cardinality({c \in 2..n : kids[c][2] # "none"}) |->
                           ResolvedRef(
                               CHOOSE c \in 2..n :
                                   /\ kids[c][2] # "none"
                                   /\ Cardinality({e \in 2..c : kids[e][2] # "none"}) = j)])
        ELSE TreeChild(kids[k][1], IF k = 2 THEN "i2" ELSE "i3", kids[k][2])]
     : root \in {s \in ModelShapes : s[1] \in ModelCompoundClasses},
       kids \in [2..n -> ModelShapes \X TreeLinks]}

\* graphs of two compounds, each a file or a namespace, the second with its
\* own id or the id of the first, and n further definitions, each with any of
\* the namespaces as scope parent and any of the files as file parent; a
\* compound's members are the definitions that name it as a parent
PairParents == {<<"FileDef", NoneId>>, <<"NamespaceDef", NoneId>>}

SiblingShapes == {<<"VariableDef", NoneId>>, <<"TypedefDef", NoneId>>,
                  <<"ClassDef", "class">>}

SiblingIds == <<"i3", "i4", "i5", "i6">>

ParentChoices(ps, cls) == {NoObj} \cup {p \in 1..2 : ps[p][1] = cls}

PairMembers(kids, p) ==
    LET listed == SelectSeq([i \in DOMAIN kids |-> i],
                            LAMBDA c : kids[c].scope = p \/ kids[c].file = p)
    IN  [i \in DOMAIN listed |-> ResolvedRef(listed[i] + 2)]

PairKids(ps, n) ==
    {ks \in [1..n -> [shape : SiblingShapes, scope : 0..2, file : 0..2]] :
        \A c \in 1..n :
            /\ ks[c].scope \in ParentChoices(ps, "NamespaceDef")
            /\ ks[c].file \in ParentChoices(ps, "FileDef")}

PairGraph(ps, id2, kids) ==
    [k \in 1..(Len(kids) + 2) |->
        IF k <= 2
        THEN Model_Def(ps[k], IF k = 1 THEN "i1" ELSE id2, NoObj, NoObj,
                       PairMembers(kids, k))
        ELSE Model_Def(kids[k - 2].shape, SiblingIds[k - 2],
                       kids[k - 2].scope, kids[k - 2].file, << >>)]

PairGraphs(n) ==
    UNION {{PairGraph(ps, id2, kids) : id2 \in {"i1", "i2"}, kids \in PairKids(ps, n)}
           : ps \in [1..2 -> PairParents]}

InitD ==
    /\ SourceIdle
    /\ MIdle
    /\ AIdle
    /\ RIdle
    /\ LIdle
    /\ dpc = "ready"
    /\ \/ \E n \in 1..MaxTreeDefs : ddefs \in TreeGraphs(n)
       \/ \E n \in 1..MaxSiblings : ddefs \in PairGraphs(n)
    /\ scope_sibling_cache = << >>
    /\ path_sibling_cache = << >>
    /\ render_jobs = << >>

\* doctree(defs, outdir) up to the rendering of the jobs
Doctree ==
    /\ dpc = "ready"
    /\ LET r == doctree([ds |-> ddefs, scache |-> scope_sibling_cache,
                         pcache |-> path_sibling_cache, jobs |-> render_jobs,
                         ok |-> TRUE], 1)
       IN  /\ ddefs' = r.ds
           /\ scope_sibling_cache' = r.scache
           /\ path_sibling_cache' = r.pcache
           /\ render_jobs' = r.jobs
           /\ dpc' = IF r.ok THEN "rendered" ELSE "raised"
    /\ UNCHANGED <<svars, mvars, avars, rvars, lvars>>

NextD == Doctree

SpecD == InitD /\ [][NextD]_vars

\* C16: rendering writes no field of any Definition of the graph: id, href, page,
\* parents and member lists are after doctree what they were when the graph was
\* handed over.
C16_RenderingWritesNoField ==
    [][Doctree => \A k \in DOMAIN ddefs : ddefs'[k] = ddefs[k]]_vars

\* what doctree does leave alone: identity, class, parents and member lists
RenderingKeepsStructure ==
    [][Doctree =>
        /\ DOMAIN ddefs' = DOMAIN ddefs
        /\ \A k \in DOMAIN ddefs :
            /\ ddefs'[k].id = ddefs[k].id
            /\ ddefs'[k].cls = ddefs[k].cls
            /\ ddefs'[k].variant = ddefs[k].variant
            /\ ddefs'[k].scope_parent = ddefs[k].scope_parent
            /\ ddefs'[k].file_parent = ddefs[k].file_parent
            /\ ddefs'[k].members = ddefs[k].members]_vars

(***************************************************************************)
(* Properties: malformed units and absent optional fields                  *)
(***************************************************************************)
\* a unit that is unparseable, holds no compounddef, is of no known compound
\* kind, or holds a memberdef without kind attribute
Malformed(u) ==
    \/ ~u.wellformed
    \/ ~u.compounddef
    \/ CompoundClass(u.kind) = ""
    \/ \E i \in DOMAIN u.members : u.members[i].kind = NoneId

\* the unit read by the step just taken
LastUnit == files'[Len(files')]

\* C17: a malformed unit contributes an empty definition list and a diagnostic
\* for that unit only, and the batch goes on: after reading it load is still in
\* its file loop with the definitions of the other units untouched.
C17_MalformedUnitSkipped ==
    [][(ParseFile /\ Malformed(LastUnit)) =>
            /\ pc' = "parse"
            /\ heap' = heap
            /\ defs' = defs
            /\ Len(warnings') > Len(warnings)
            /\ \A i \in DOMAIN warnings' :
                    i > Len(warnings) => warnings'[i].file = file_name']_vars

\* the three cases _parse tests for itself behave as C17 says
ParseFailureSkipped ==
    [][(ParseFile /\ (\/ ~LastUnit.wellformed
                      \/ ~LastUnit.compounddef
                      \/ (LastUnit.kind # NoneId /\ CompoundClass(LastUnit.kind) = ""))) =>
            /\ pc' = "parse"
            /\ heap' = heap
            /\ defs' = defs
            /\ Len(warnings') = Len(warnings) + 1
            /\ warnings'[Len(warnings')].file = file_name']_vars

\* C18: reference resolution and unqualification return for every graph the
\* file loop can produce, also when a Definition has no qualified_name, a member
\* reference has neither id nor text, or a reference fragment holds no
\* reference.
C18_ResolutionPassesComplete ==
    [][(ResolveRefs \/ UnqualifyNames) => pc' # "crashed"]_vars

\* a graph with none of the three absences gets through both passes
HasAbsentField ==
    \/ \E i \in DOMAIN defs : heap[defs[i]].qualified_name = NoName
    \/ \E k \in DOMAIN heap :
        \/ \E i \in DOMAIN heap[k].members : heap[k].members[i].tag = "None"
        \/ \E s \in Slots : \E i \in DOMAIN heap[k].markup[s].children :
                /\ heap[k].markup[s].children[i].cls = "RefFragment"
                /\ heap[k].markup[s].children[i].ref.tag = "None"

CompleteRecordsPass ==
    [][((ResolveRefs \/ UnqualifyNames) /\ ~HasAbsentField) => pc' # "crashed"]_vars

(***************************************************************************)
(* Properties: categories                                                  *)
(***************************************************************************)
\* the category whose name says what the definition is
SameMeaning(o) ==
    CASE o.cls \in {"IndexDef", "PageDef", "GroupDef"} -> "PAGE"
      [] o.cls = "DirectoryDef" -> "DIRECTORY"
      [] o.cls = "FileDef" -> "FILE"
      [] o.cls = "NamespaceDef" -> "NAMESPACE"
      [] o.cls = "MacroDef" -> "MACRO"
      [] o.cls \in {"ClassDef", "TypedefDef", "EnumDef"} -> "TYPE"
      [] o.cls = "EnumVariantDef" -> "VARIANT"
      [] o.cls = "PropertyDef" -> "PROPERTY"
      [] o.cls = "VariableDef" -> "VARIABLE"
      [] o.cls = "FriendDef" -> "FRIEND"
      [] o.cls = "FunctionDef" /\ o.variant = "constructor" -> "CONSTRUCTOR"
      [] o.cls = "FunctionDef" /\ o.variant = "destructor" -> "DESTRUCTOR"
      [] o.cls = "FunctionDef" /\ o.variant = "signal" -> "SIGNAL"
      [] o.cls = "FunctionDef" /\ o.variant = "slot" -> "SLOT"
      [] OTHER -> "FUNCTION"

CategorizedAsMeant(o) ==
    /\ ~category_raises(o)
    /\ category(o) = SameMeaning(o)

\* C19: category(d) is defined for every Definition handed to doctree and is the
\* category of the same meaning as d's kind, and no two categories share a
\* numeric order.
C19_CategoryOfSameMeaning ==
    /\ \A k \in DOMAIN ddefs : CategorizedAsMeant(ddefs[k])
    /\ \A a, b \in DOMAIN SymbolCategory :
            a # b => SymbolCategory[a] # SymbolCategory[b]

\* what does hold: every definition that has a kind and is no file is
\* categorized as meant, and the orders are pairwise distinct
CategoryOfKindsButFile ==
    /\ \A k \in DOMAIN ddefs :
            (ddefs[k].cls # "FileDef" /\ Model_kind(ddefs[k]) # NoneId)
                => CategorizedAsMeant(ddefs[k])
    /\ \A a, b \in DOMAIN SymbolCategory :
            a # b => SymbolCategory[a] # SymbolCategory[b]

(***************************************************************************)
(* Attribute badges: cpp_order_attributes (model.py)                       *)
(***************************************************************************)
MaxAttrs == 3

\* class Attribute(Enum) of model.py, by member name
Attribute == {"FINAL", "OVERRIDE", "VIRTUAL", "ABSTRACT", "CONSTEXPR", "EXPLICIT",
              "NOEXCEPT", "STATIC", "MUTABLE", "INLINE", "CONST"}

\* the two local lists of cpp_order_attributes
may_before == <<"STATIC", "VIRTUAL", "CONSTEXPR", "MUTABLE", "EXPLICIT">>
may_after == <<"CONST", "OVERRIDE", "FINAL", "ABSTRACT">>

\* a variant that walks the recorded list and keeps what may stand on each side
cpp_order_attributes_Recorded(attrs) ==
    <<SelectSeq(attrs, LAMBDA a : a \in Range(may_before)),
      SelectSeq(attrs, LAMBDA a : a \in Range(may_after))>>

\* cpp_order_attributes(attrs):
\*   [a for a in may_before if a in attrs], [a for a in may_after if a in attrs]
cpp_order_attributes(attrs) ==
    <<SelectSeq(may_before, LAMBDA a : a \in Range(attrs)),
      SelectSeq(may_after, LAMBDA a : a \in Range(attrs))>>

\* the attribute lists a Def can carry: any list of Attribute members, repeated
\* members included
AttributeLists == UNION {[1..n -> Attribute] : n \in 0..MaxAttrs}

InitA ==
    /\ SourceIdle
    /\ MIdle
    /\ DIdle
    /\ RIdle
    /\ LIdle
    /\ apc = "call"
    /\ attributes \in AttributeLists
    /\ attr_before = << >>
    /\ attr_after = << >>

\* attr_before, attr_after = cpp_order_attributes(self.attributes)
CppOrderAttributes ==
    /\ apc = "call"
    /\ LET r == cpp_order_attributes(attributes)
       IN  /\ attr_before' = r[1]
           /\ attr_after' = r[2]
    /\ apc' = "returned"
    /\ UNCHANGED attributes
    /\ UNCHANGED <<svars, mvars, dvars, rvars, lvars>>

NextA == CppOrderAttributes

SpecA == InitA /\ [][NextA]_vars

(***************************************************************************)
(* Properties: attribute badges                                            *)
(***************************************************************************)
BeforeOrder == <<"STATIC", "VIRTUAL", "CONSTEXPR", "MUTABLE", "EXPLICIT">>
AfterOrder == <<"CONST", "OVERRIDE", "FINAL", "ABSTRACT">>

PositionIn(order, a) == CHOOSE i \in DOMAIN order : order[i] = a

\* out holds exactly the members of order that are present, in the order of order
FixedOrderSelection(out, order, present) ==
    /\ Range(out) = Range(order) \cap present
    /\ \A i, j \in DOMAIN out :
            i < j => PositionIn(order, out[i]) < PositionIn(order, out[j])

\* C20: the before-name badges are the present members of (static, virtual,
\* constexpr, mutable, explicit) and the after-name badges the present members of
\* (const, override, final, abstract), each in that order and each at most once,
\* and every permutation of the recorded attributes gives the same result.
C20_BadgesInFixedOrder ==
    apc = "returned" =>
        /\ FixedOrderSelection(attr_before, BeforeOrder, Range(attributes))
        /\ FixedOrderSelection(attr_after, AfterOrder, Range(attributes))
        /\ \A i, j \in DOMAIN attr_before : i # j => attr_before[i] # attr_before[j]
        /\ \A i, j \in DOMAIN attr_after : i # j => attr_after[i] # attr_after[j]
        /\ \A p \in Permutations(DOMAIN attributes) :
                cpp_order_attributes([i \in DOMAIN attributes |-> attributes[p[i]]])
                    = <<attr_before, attr_after>>

\* an attribute recorded twice, two before-name badges recorded against the
\* fixed order, and an after-name badge
C20_Witness ==
    /\ apc = "returned"
    /\ \E i, j \in DOMAIN attributes : i < j /\ attributes[i] = attributes[j]
    /\ Len(attr_before) = 2
    /\ \E i, j \in DOMAIN attributes :
            i < j /\ attributes[i] = attr_before[2] /\ attributes[j] = attr_before[1]

(***************************************************************************)
(* HTML rendering of reference fragments (source.py and model.py)          *)
(***************************************************************************)
MaxText == 2

\* the characters of a fragment's text: a letter and the five characters
\* _html_escape replaces
TextChars == {"a", "&", "<", ">", "\"", "'"}

Texts == UNION {[1..n -> TextChars] : n \in 0..MaxText}

\* str.replace(c, rep) on a sequence of characters
RECURSIVE str_replace(_, _, _)
str_replace(s, c, rep) ==
    IF s = << >> THEN << >>
    ELSE (IF Head(s) = c THEN rep ELSE <<Head(s)>>) \o str_replace(Tail(s), c, rep)

\* a variant that replaces the ampersand last
_html_escape_AmpersandLast(s) ==
    str_replace(
        str_replace(
            str_replace(
                str_replace(
                    str_replace(s, "<", <<"&", "l", "t", ";">>),
                    ">", <<"&", "g", "t", ";">>),
                "\"", <<"&", "q", "u", "o", "t", ";">>),
            "'", <<"&", "a", "p", "o", "s", ";">>),
        "&", <<"&", "a", "m", "p", ";">>)

\* _html_escape: five replacements, the ampersand first
_html_escape(s) ==
    str_replace(
        str_replace(
            str_replace(
                str_replace(
                    str_replace(s, "&", <<"&", "a", "m", "p", ";">>),
                    "<", <<"&", "l", "t", ";">>),
                ">", <<"&", "g", "t", ";">>),
            "\"", <<"&", "q", "u", "o", "t", ";">>),
        "'", <<"&", "a", "p", "o", "s", ";">>)

\* the pieces of a rendered string: characters that came out of a text, and the
\* markup the format strings put around them
HtmlText(chars) == [tag |-> "text", kind |-> "", href |-> NoHref, text |-> chars]
HtmlAnchor(kind, href, name) ==
    [tag |-> "a", kind |-> kind, href |-> href, text |-> <<name>>]
HtmlScope == [tag |-> "scope", kind |-> "", href |-> NoHref, text |-> <<":", ":">>]
HtmlSpanOpen == [tag |-> "span", kind |-> "ref", href |-> NoHref, text |-> << >>]
HtmlSpanClose == [tag |-> "/span", kind |-> "", href |-> NoHref, text |-> << >>]

\* TextFragment(text)
TextFragmentOf(chars) == [cls |-> "TextFragment", text |-> chars]

\* RefFragment(ref) with the children deserialize_fragment_children appends: one
\* TextFragment when the <ref> element has text
RefFragmentOf(ref, chars) ==
    [cls |-> "RefFragment", ref |-> ref,
     children |-> IF chars = << >> THEN << >> ELSE <<TextFragmentOf(chars)>>]

\* TextFragment.render_html
TextFragment_render_html(f) == <<HtmlText(_html_escape(f.text))>>

\* Fragment.render_html: ' '.join(c.render_html() for c in self.children)
RECURSIVE Fragment_render_html(_)
Fragment_render_html(children) ==
    IF children = << >> THEN << >>
    ELSE IF Len(children) = 1 THEN TextFragment_render_html(children[1])
    ELSE TextFragment_render_html(children[1]) \o <<HtmlText(<<" ">>)>>
         \o Fragment_render_html(Tail(children))

\* the links to the scope ancestors of ds[k], outermost first, each followed by
\* the scope separator; model.py stops at the first ancestor in the context
RECURSIVE ScopeLinks(_, _, _)
ScopeLinks(ds, k, ctx) ==
    IF k = NoObj \/ k \in ctx THEN << >>
    ELSE ScopeLinks(ds, ds[k].scope_parent, ctx)
         \o <<HtmlAnchor(ds[k].kind, ds[k].href, ds[k].name), HtmlScope>>

\* source.py Def.qualified_name_html
Def_qualified_name_html(ds, k) ==
    <<HtmlSpanOpen>> \o ScopeLinks(ds, ds[k].scope_parent, {})
    \o <<HtmlAnchor(ds[k].kind, ds[k].href, ds[k].name), HtmlSpanClose>>

\* model.py Def.qualified_name_html(context)
Model_Def_qualified_name_html(ds, k, ctx) ==
    ScopeLinks(ds, ds[k].scope_parent, ctx)
    \o <<HtmlAnchor(ds[k].kind, ds[k].href, ds[k].name)>>

\* source.py RefFragment.render_html
RefFragment_render_html(ds, f) ==
    LET content == Fragment_render_html(f.children)
    IN  IF f.ref.tag = "Resolved"
        THEN Def_qualified_name_html(ds, f.ref.definition)
        ELSE content

\* model.py RefFragment.render_html(context)
Model_RefFragment_render_html(ds, f, ctx) ==
    LET content == Fragment_render_html(f.children)
    IN  IF f.ref.tag = "Resolved"
        THEN Model_Def_qualified_name_html(ds, f.ref.definition, ctx)
        ELSE content

\* the definitions a reference can point to: a namespace and a class that is
\* either inside it or at top level, with their locators assigned or not yet
RenderDef(kind, name, href, scope_parent) ==
    [kind |-> kind, name |-> name, href |-> href, scope_parent |-> scope_parent]

RenderGraphs ==
    {<<RenderDef("namespace", "a", IF located THEN <<"i1", ".html">> ELSE NoHref, NoObj),
       RenderDef("class", "b", IF located THEN <<"i2", ".html">> ELSE NoHref, sp)>>
     : located \in BOOLEAN, sp \in {NoObj, 1}}

RenderRefs == {ResolvedRef(1), ResolvedRef(2), UnresolvedRef(NameOf("i3")),
               SymbolicRef("missing", NameOf("i3")), NoRef}

InitR ==
    /\ SourceIdle
    /\ MIdle
    /\ DIdle
    /\ AIdle
    /\ LIdle
    /\ rpc = "call"
    /\ rdefs \in RenderGraphs
    /\ \E r \in RenderRefs : \E t \in Texts : fragment = RefFragmentOf(r, t)
    /\ context \in {{}, {1}}
    /\ html = << >>

\* source.py: fragment.render_html()
RenderSource ==
    /\ rpc = "call"
    /\ html' = RefFragment_render_html(rdefs, fragment)
    /\ rpc' = "source"
    /\ UNCHANGED <<rdefs, fragment, context>>
    /\ UNCHANGED <<svars, mvars, dvars, avars, lvars>>

\* model.py: fragment.render_html(context)
RenderModel ==
    /\ rpc = "call"
    /\ html' = Model_RefFragment_render_html(rdefs, fragment, context)
    /\ rpc' = "model"
    /\ UNCHANGED <<rdefs, fragment, context>>
    /\ UNCHANGED <<svars, mvars, dvars, avars, lvars>>

NextR ==
    \/ RenderSource
    \/ RenderModel

SpecR == InitR /\ [][NextR]_vars

(***************************************************************************)
(* Properties: reference fragments                                         *)
(***************************************************************************)
\* the entity that stands for a character in HTML text
EntityOf(c) ==
    CASE c = "&" -> <<"&", "a", "m", "p", ";">>
      [] c = "<" -> <<"&", "l", "t", ";">>
      [] c = ">" -> <<"&", "g", "t", ";">>
      [] c = "\"" -> <<"&", "q", "u", "o", "t", ";">>
      [] c = "'" -> <<"&", "a", "p", "o", "s", ";">>
      [] OTHER -> <<c>>

RECURSIVE EscapedText(_)
EscapedText(s) == IF s = << >> THEN << >> ELSE EntityOf(Head(s)) \o EscapedText(Tail(s))

FragmentText == IF fragment.children = << >> THEN << >> ELSE fragment.children[1].text

LinksTo(h) == \E i \in DOMAIN html : html[i].tag = "a" /\ html[i].href = h

HasLink == \E i \in DOMAIN html : html[i].tag = "a"

RefSet(h, k) == AllSlotRefs(h[k], Slots) \cup Range(h[k].members)

SomeResolved == \E k \in DOMAIN heap : \E r \in RefSet(heap, k) : r.tag = "Resolved"
SomeParent ==
    \E k \in DOMAIN heap : heap[k].scope_parent # NoObj \/ heap[k].file_parent # NoObj
SomeName == \E k \in DOMAIN heap : heap[k].name # NoName
SomeLocator == \E k \in DOMAIN heap : heap[k].href # NoHref

\* C22: the passes of load do not overlap.  Once a reference is resolved no unit
\* is parsed or merged any more; once a parent is assigned no reference changes
\* any more; once a name is assigned no parent changes any more; once a locator
\* is generated no name changes any more.
C22_PassesInFixedOrder ==
    [][/\ SomeResolved =>
            files' = files /\ defs' = defs /\ DOMAIN heap' = DOMAIN heap
       /\ SomeParent =>
            \A k \in DOMAIN heap : RefSet(heap', k) = RefSet(heap, k)
       /\ SomeName =>
            \A k \in DOMAIN heap :
                /\ heap'[k].scope_parent = heap[k].scope_parent
                /\ heap'[k].file_parent = heap[k].file_parent
       /\ SomeLocator =>
            \A k \in DOMAIN heap : heap'[k].name = heap[k].name]_vars

\* load has returned a graph of two units in which every pass left a trace
C22_Witness ==
    /\ Loaded
    /\ Len(files) = 2
    /\ SomeResolved
    /\ SomeParent
    /\ \E k \in DOMAIN heap : heap[k].name # NoName /\ heap[k].name # heap[k].qualified_name
    /\ SomeLocator

(***************************************************************************)
(* Properties: diagnostics of dangling references                          *)
(***************************************************************************)
\* the ids the ref elements inside the markup elements of a record refer to
RecordRefIds(x) ==
    (UNION {{x.elems[t].children[i].refid : i \in DOMAIN x.elems[t].children}
            : t \in ElemTags}) \ {NoneId}

\* every id a unit refers to: in its inner* elements, its own markup, and the
\* markup of its members and their enum values
UnitRefIds(u) ==
    ({u.inner[i].refid : i \in DOMAIN u.inner} \ {NoneId})
    \cup RecordRefIds(u)
    \cup UNION {RecordRefIds(u.members[i]) : i \in DOMAIN u.members}
    \cup UNION {UNION {RecordRefIds(u.members[i].values[j]) :
                            j \in DOMAIN u.members[i].values}
                    : i \in DOMAIN u.members}

\* C23: the diagnostic for an unresolved reference names the unit that holds
\* the dangling reference.
C23_DiagnosticNamesOwnUnit ==
    \A i \in DOMAIN warnings :
        warnings[i].msg = "Unresolved reference" =>
            /\ warnings[i].file \in DOMAIN files
            /\ warnings[i].id \in UnitRefIds(files[warnings[i].file])

\* what the diagnostic does name: the unit parsed last
DiagnosticNamesLastUnit ==
    \A i \in DOMAIN warnings :
        warnings[i].msg = "Unresolved reference" => warnings[i].file = Len(files)

(***************************************************************************)
(* Slugs of model.py definitions in a chain of parents                     *)
(***************************************************************************)
MaxChain == 3

\* the classes deriving from PathDef and from SymbolDef
PathClasses == {"DirectoryDef", "FileDef"}
SymbolClasses == {"MacroDef", "TypedefDef", "FunctionDef", "VariableDef",
                  "PropertyDef", "FriendDef", "EnumVariantDef", "EnumDef",
                  "NamespaceDef", "ClassDef"}

ChainNames == {<<"a">>, <<"b">>, <<"A">>}

\* a definition of a chain: its parent is the definition before it
ChainDef(cls, name, parent) ==
    [cls |-> cls, name |-> name,
     scope_parent |-> IF cls \in PathClasses THEN NoObj ELSE parent,
     file_parent |-> IF cls \in PathClasses THEN parent ELSE NoObj]

\* the chains of n definitions below an optional IndexDef: directories down to
\* a directory or file, or namespaces down to a symbol
Chains(n) ==
    {(IF rooted THEN <<ChainDef("IndexDef", <<"x">>, NoObj)>> ELSE << >>) \o
        [k \in 1..n |->
            ChainDef(IF k < n
                     THEN (IF leaf \in PathClasses THEN "DirectoryDef" ELSE "NamespaceDef")
                     ELSE leaf,
                     names[k],
                     IF rooted THEN k ELSE k - 1)]
     : rooted \in BOOLEAN, leaf \in PathClasses \cup SymbolClasses,
       names \in [1..n -> ChainNames]}

InitL ==
    /\ SourceIdle
    /\ MIdle
    /\ DIdle
    /\ AIdle
    /\ RIdle
    /\ lpc = "call"
    /\ \E n \in 1..MaxChain : ldefs \in Chains(n)
    /\ slugs = << >>

\* d.slug() for the innermost definition of the chain
Slug ==
    /\ lpc = "call"
    /\ slugs' = Def_slug(ldefs, Len(ldefs))
    /\ lpc' = "returned"
    /\ UNCHANGED ldefs
    /\ UNCHANGED <<svars, mvars, dvars, avars, rvars>>

NextL == Slug

SpecL == InitL /\ [][NextL]_vars

(***************************************************************************)
(* Properties: slugs                                                       *)
(***************************************************************************)
Lowercased(name) == IF name = <<"A">> THEN <<"a">> ELSE name

\* the lowercased names of the definitions from position k on, each followed
\* by a dash except the last
RECURSIVE DashJoined(_, _)
DashJoined(ds, k) ==
    IF k > Len(ds) THEN << >>
    ELSE IF k = Len(ds) THEN Lowercased(ds[k].name)
    ELSE Lowercased(ds[k].name) \o <<"-">> \o DashJoined(ds, k + 1)

FirstNonRoot(ds) == IF ds[1].cls = "IndexDef" THEN 2 ELSE 1

\* C24: the slug is the kind tag, then the lowercased names of all non-root
\* ancestors, outermost first, then the own name, joined by dashes; every
\* ancestor contributes its own name once.
C24_SlugNamesEveryAncestor ==
    lpc = "returned" =>
        slugs = <<SlugTag(ldefs[Len(ldefs)].cls), "-">>
                    \o DashJoined(ldefs, FirstNonRoot(ldefs))

\* what holds: the slugs of symbols, and of files and directories with at most
\* one non-root ancestor
SlugOfSymbolsAndShallowPaths ==
    (/\ lpc = "returned"
     /\ \/ ldefs[Len(ldefs)].cls \in SymbolClasses
        \/ Len(ldefs) - FirstNonRoot(ldefs) <= 1) =>
        slugs = <<SlugTag(ldefs[Len(ldefs)].cls), "-">>
                    \o DashJoined(ldefs, FirstNonRoot(ldefs))

(***************************************************************************)
(* C25: a member whose qualified name does not extend its lister's         *)
(***************************************************************************)
\* the Definitions a compound k lists as Resolved members
ResolvedMembersOf(k) ==
    {heap[k].members[j].definition :
        j \in {i \in DOMAIN heap[k].members : heap[k].members[i].tag = "Resolved"}}

\* the compounds of defs that list k as a Resolved member
CompoundListers(k) ==
    {p \in Range(defs) : heap[p].cls \in CompoundClasses /\ k \in ResolvedMembersOf(p)}

\* compound c is a member of compound p, and its qualified name does not begin
\* with p's qualified name followed by '::'
MismatchedMember(p, c) ==
    /\ p \in Range(defs) /\ heap[p].cls \in CompoundClasses
    /\ c \in ResolvedMembersOf(p)
    /\ c \in Range(defs) /\ heap[c].cls \in CompoundClasses
    /\ heap[p].qualified_name # NoName /\ heap[c].qualified_name # NoName
    /\ ~StartsWith(heap[c].qualified_name, PlusScope(heap[p].qualified_name))

\* g is a member of c alone, and its qualified name extends c's
OwnMember(c, g) ==
    /\ g \in ResolvedMembersOf(c)
    /\ CompoundListers(g) = {c}
    /\ heap[g].qualified_name # NoName
    /\ StartsWith(heap[g].qualified_name, PlusScope(heap[c].qualified_name))

JobDefOf(ds, n) ==
    CHOOSE k \in DOMAIN ds :
        /\ ds[k].page # NoHref
        /\ Cardinality({j \in 1..k : ds[j].page # NoHref}) = n

JobDef(n) == JobDefOf(ddefs, n)

\* the hrefs of the descriptions of a list of categories
CatHrefs(cats) ==
    [c \in DOMAIN cats |->
        [i \in DOMAIN cats[c].members |-> cats[c].members[i].href]]

\* the hrefs of a page script
ScriptHrefs(script) ==
    [scope_parent_href |-> script.scope_parent_href,
     file_parent_href |-> script.file_parent_href,
     members |-> CatHrefs(script.member_cats),
     scope_siblings |-> CatHrefs(script.scope_sibling_cats),
     path_siblings |-> CatHrefs(script.path_sibling_cats)]

\* the script of definition k prepared from the graph as doctree leaves it
FinalScript(k) == prepare_render(ddefs, k, << >>, << >>).script

\* C26: every href in a page script (of the members, the siblings, the scope
\* parent and the file parent) is the final locator of the Definition it
\* refers to: the hrefs of each job's script are those of the script prepared
\* for the same definition once every locator is assigned.
C26_ScriptHrefsAreFinal ==
    dpc \in {"rendered", "raised"} =>
        \A n \in DOMAIN render_jobs :
            ScriptHrefs(render_jobs[n].script) = ScriptHrefs(FinalScript(JobDef(n)))

\* what does hold: the locator of a parent that precedes the definition in the
\* list is final in the definition's script
EarlierParentHrefsAreFinal ==
    dpc \in {"rendered", "raised"} =>
        \A n \in DOMAIN render_jobs :
            LET k == JobDef(n)
                final == FinalScript(k)
            IN  /\ ddefs[k].scope_parent \in 1..(k - 1)
                    => render_jobs[n].script.scope_parent_href = final.scope_parent_href
                /\ ddefs[k].file_parent \in 1..(k - 1)
                    => render_jobs[n].script.file_parent_href = final.file_parent_href

(***************************************************************************)
(* C27: the output paths of the render jobs                                *)
(***************************************************************************)
\* C27: no two of the render jobs doctree hands to the worker pool have the
\* same output path, whatever the list of definitions is, one in which two
\* definitions have the same id included.
C27_JobPathsDistinct ==
    \A a, b \in DOMAIN render_jobs :
        a # b => render_jobs[a].page # render_jobs[b].page

\* what does hold: the paths are pairwise distinct when the ids are
JobPathsDistinctForDistinctIds ==
    (\A i, j \in DOMAIN ddefs : i # j => ddefs[i].id # ddefs[j].id)
        => \A a, b \in DOMAIN render_jobs :
                a # b => render_jobs[a].page # render_jobs[b].page

(***************************************************************************)
(* C28: sibling_cats as a cache                                            *)
(***************************************************************************)
\* the graph when the script of definition k is prepared: the definitions up
\* to k have their locator, the later ones not yet
GraphAt(before, after, k) ==
    [j \in DOMAIN before |-> IF j <= k THEN after[j] ELSE before[j]]

\* what sibling_cats computes for the parent without a cache
Uncached(ds, parent, ctx) == sibling_cats(ds, parent, ctx, << >>).cats

\* the sibling lists of the n-th job are the uncached ones
SiblingsUncached(before, after, jobs, n) ==
    LET k == JobDefOf(after, n)
        at == GraphAt(before, after, k)
        ctx == render_context(at, k)
    IN  /\ at[k].scope_parent # NoObj
            => jobs[n].script.scope_sibling_cats = Uncached(at, at[k].scope_parent, ctx)
        /\ at[k].file_parent # NoObj
            => jobs[n].script.path_sibling_cats = Uncached(at, at[k].file_parent, ctx)

\* C28: sibling_cats is a transparent cache: the sibling lists in every page
\* script are what the computation over parent.members with the context of
\* that page yields without a cache, whatever was rendered before and
\* whatever ids the compounds have.
C28_SiblingCacheTransparent ==
    [][Doctree => \A n \in DOMAIN render_jobs' :
                    SiblingsUncached(ddefs, ddefs', render_jobs', n)]_vars

\* an earlier definition of the list has a parent of the relation with the id
\* of k's parent
EarlierSameParentId(ds, k, rel) ==
    \E j \in 1..(k - 1) :
        IF rel = "scope"
        THEN /\ ds[j].scope_parent # NoObj
             /\ ds[ds[j].scope_parent].id = ds[ds[k].scope_parent].id
        ELSE /\ ds[j].file_parent # NoObj
             /\ ds[ds[j].file_parent].id = ds[ds[k].file_parent].id

\* what does hold: the lists are the uncached ones in the first script
\* prepared for a parent id
FirstCallUncached ==
    [][Doctree =>
        \A n \in DOMAIN render_jobs' :
            LET k == JobDefOf(ddefs', n)
                at == GraphAt(ddefs, ddefs', k)
                ctx == render_context(at, k)
            IN  /\ (at[k].scope_parent # NoObj /\ ~EarlierSameParentId(at, k, "scope"))
                    => render_jobs'[n].script.scope_sibling_cats
                            = Uncached(at, at[k].scope_parent, ctx)
                /\ (at[k].file_parent # NoObj /\ ~EarlierSameParentId(at, k, "path"))
                    => render_jobs'[n].script.path_sibling_cats
                            = Uncached(at, at[k].file_parent, ctx)]_vars

(***************************************************************************)
(* C29: the definitions references can reach                               *)
(***************************************************************************)
Resolved == pc \in {"resolved", "assigned", "unqualified", "named", "done"}

\* every resolved reference points to the last Definition of the list that
\* has the id of its target
ReferencesResolveToLast ==
    Resolved =>
        \A k \in DOMAIN heap :
            \A r \in RefSet(heap, k) :
                r.tag = "Resolved"
                    => /\ r.definition \in Range(defs)
                       /\ r.definition = IdLookup(heap, defs, heap[r.definition].id)

\* a Definition of the list that a later one with the same id shadows
Shadowed(i) == \E j \in DOMAIN defs : j > i /\ heap[defs[j]].id = heap[defs[i]].id

\* C29: after reference resolution every Definition of the load result is the
\* one the references naming its id resolve to: references to an id that
\* several Definitions carry all resolve to the last of them, and the result
\* holds no Definition that a later one with the same id shadows.
C29_NoDefinitionShadowed ==
    /\ ReferencesResolveToLast
    /\ Resolved => \A i \in DOMAIN defs : ~Shadowed(i)

(***************************************************************************)
(* C30: the recursion of unqualification                                   *)
(***************************************************************************)
\* _unqualify_names(m, prefix of d) goes on into the members of m: m is a
\* Resolved member of the compound d, its qualified name starts with d's and
\* '::', and it is a compound
Descends(d, m) ==
    /\ heap[d].cls \in CompoundClasses
    /\ m \in ResolvedMembersOf(d)
    /\ StartsWith(heap[m].qualified_name, PlusScope(heap[d].qualified_name))
    /\ heap[m].cls \in CompoundClasses

\* the Definitions reached from those of S in at most n further calls
RECURSIVE CallsFrom(_, _)
CallsFrom(S, n) ==
    IF n = 0 THEN S
    ELSE CallsFrom(S \cup {m \in DOMAIN heap : \E d \in S : Descends(d, m)}, n - 1)

\* a compound lists itself, directly or through the members of its members
MemberCycle ==
    \E d \in DOMAIN heap :
        LET step(S) == S \cup UNION {ResolvedMembersOf(k) :
                                        k \in {c \in S : heap[c].cls \in CompoundClasses}}
        IN  /\ heap[d].cls \in CompoundClasses
            /\ d \in step(step(ResolvedMembersOf(d)))

AllQualified == \A k \in DOMAIN heap : heap[k].qualified_name # NoName

\* C30: when every qualified name is present, the unqualification pass
\* terminates, member cycles and compounds that list themselves included:
\* every call below the top level that goes on into members is for a
\* qualified name longer than that of the enclosing compound, so no call
\* chain comes back to a compound it passed, and the pass returns.
C30_UnqualificationTerminates ==
    (pc = "assigned" /\ AllQualified) =>
        /\ \A d, m \in DOMAIN heap :
              Descends(d, m)
                => Len(heap[m].qualified_name) > Len(heap[d].qualified_name)
        /\ \A d \in DOMAIN heap :
              d \notin CallsFrom({m \in DOMAIN heap : Descends(d, m)},
                                 Cardinality(DOMAIN heap))
        /\ UnqualifyAll([h |-> heap, ok |-> TRUE], defs).ok

\* the pass has returned for definitions whose member references form a cycle
C30_Witness ==
    /\ pc = "unqualified"
    /\ AllQualified
    /\ MemberCycle
    /\ \E d \in DOMAIN heap : d \in ResolvedMembersOf(d) /\ heap[d].cls \in CompoundClasses

====
